---- MODULE Spec2Model ----
(***************************************************************************)
(* Apple Reminders JSON -> Asana CSV converter (asana_convert.py).         *)
(*                                                                         *)
(* Python strings whose characters matter (titles, tags, list names,       *)
(* dates) are sequences of one-character strings; strings that are only    *)
(* looked up or compared whole (priorities, languages, dictionary keys,    *)
(* the "Ja" markers) are TLA+ strings.  A Python dict is a function whose  *)
(* DOMAIN is the set of keys present.                                      *)
(***************************************************************************)
EXTENDS Integers, Sequences, FiniteSets, TLC

VARIABLES
    args,   \* the module-level global `args` (main sets it; a test may set it)
    fs,     \* the output files: path -> file content
    call    \* the call in progress or finished: its inputs and its result

vars == <<args, fs, call>>

(***************************************************************************)
(* Bounds of the model.                                                    *)
(***************************************************************************)
MaxTitleLen == 4
MaxTags == 2
MaxReminders == 2
MaxFiles == 2
MaxAssigneeLen == 3

(***************************************************************************)
(* Characters and string helpers.                                          *)
(***************************************************************************)
LowerLetters == {"a", "b", "t"}
UpperLetters == {"A", "B", "T"}
Digits == {"0", "1", "2", "3", "4", "5", "6", "7", "8", "9"}
\* re's \w: letters, digits and underscore
WordChars == LowerLetters \cup UpperLetters \cup Digits \cup {"_"}
\* re's \s and str.strip(): whitespace
SpaceChars == {" ", "\t", "\n", "\r"}

IsWord(c) == c \in WordChars
IsSpace(c) == c \in SpaceChars

\* str.lower() on one character
LowerChar(c) ==
    CASE c = "A" -> "a"
      [] c = "B" -> "b"
      [] c = "T" -> "t"
      [] OTHER -> c

\* str.upper() on one character
UpperChar(c) ==
    CASE c = "a" -> "A"
      [] c = "b" -> "B"
      [] c = "t" -> "T"
      [] OTHER -> c

\* str.lower()
Lower(s) == [i \in 1..Len(s) |-> LowerChar(s[i])]

\* a capitalize that leaves the characters after the first as they are
CapitalizeFirstOnly(s) == [i \in 1..Len(s) |-> IF i = 1 THEN UpperChar(s[i]) ELSE s[i]]

\* str.capitalize(): first character upper-cased, the rest lower-cased
Capitalize(s) == [i \in 1..Len(s) |-> IF i = 1 THEN UpperChar(s[i]) ELSE LowerChar(s[i])]

\* all sequences over S of length at most n
SeqsUpTo(S, n) == UNION {[1..k -> S] : k \in 0..n}

\* Python's None where a character string is expected
NoneVal == <<"<None>">>

\* truthiness of a string-or-None value
Truthy(s) == s # NoneVal /\ s # <<>>

\* dict.get(key, default)
Get(d, k, default) == IF k \in DOMAIN d THEN d[k] ELSE default

RECURSIVE LStrip(_)
LStrip(s) == IF s # <<>> /\ IsSpace(Head(s)) THEN LStrip(Tail(s)) ELSE s

RECURSIVE RStrip(_)
RStrip(s) ==
    IF s # <<>> /\ IsSpace(s[Len(s)]) THEN RStrip(SubSeq(s, 1, Len(s) - 1)) ELSE s

\* str.strip()
Strip(s) == RStrip(LStrip(s))

\* sep.join(parts)
RECURSIVE Join(_, _)
Join(sep, parts) ==
    IF parts = <<>> THEN <<>>
    ELSE IF Len(parts) = 1 THEN parts[1]
    ELSE parts[1] \o sep \o Join(sep, Tail(parts))

(***************************************************************************)
(* map_priority                                                            *)
(***************************************************************************)
priority_map ==
    ("Ohne" :> "Low") @@ ("Gering" :> "Low") @@ ("Niedrig" :> "Low") @@
    ("Mittel" :> "Medium") @@ ("Hoch" :> "High") @@
    ("None" :> "Low") @@ ("Low" :> "Low") @@ ("Medium" :> "Medium") @@
    ("High" :> "High") @@ ("" :> "Low")

german_map == ("Low" :> "Niedrig") @@ ("Medium" :> "Mittel") @@ ("High" :> "Hoch")

map_priority_no_translation(apple_priority, language) ==
    Get(priority_map, apple_priority, "Low")

map_priority(apple_priority, language) ==
    LET standard_priority == Get(priority_map, apple_priority, "Low")
    IN  IF language = "de"
        THEN Get(german_map, standard_priority, "Niedrig")
        ELSE standard_priority

(***************************************************************************)
(* get_asana_fieldnames                                                    *)
(***************************************************************************)
\* The localized header is written "Priorit<U+221A><U+00A7>t" here: the two
\* characters between "Priorit" and "t" in the source are not ASCII.
\* a header that keeps the English priority label in every language
get_asana_fieldnames_unlocalized(language) ==
    <<"Name", "Assignee Email", "Due Date", "Tags", "Notes", "Section/Column", "Priority">>

get_asana_fieldnames(language) ==
    IF language = "de"
    THEN <<"Name", "Assignee Email", "Due Date", "Tags", "Notes",
           "Section/Column", "Priorit<U+221A><U+00A7>t">>
    ELSE <<"Name", "Assignee Email", "Due Date", "Tags", "Notes",
           "Section/Column", "Priority">>

(***************************************************************************)
(* extract_tags_from_title                                                 *)
(***************************************************************************)
\* the first index >= i of s that holds no word character (Len(s)+1 if none)
RECURSIVE WordRunEnd(_, _)
WordRunEnd(s, i) == IF i <= Len(s) /\ IsWord(s[i]) THEN WordRunEnd(s, i + 1) ELSE i

\* the first index >= i of s that holds no whitespace (Len(s)+1 if none)
RECURSIVE SpaceRunEnd(_, _)
SpaceRunEnd(s, i) == IF i <= Len(s) /\ IsSpace(s[i]) THEN SpaceRunEnd(s, i + 1) ELSE i

\* the pattern #\w+ matches at index i of s
TokenAt(s, i) == i + 1 <= Len(s) /\ s[i] = "#" /\ IsWord(s[i + 1])

\* re.findall(r'#(\w+)', s), scanning from index i
RECURSIVE FindAllTags(_, _)
FindAllTags(s, i) ==
    IF i > Len(s) THEN <<>>
    ELSE IF TokenAt(s, i)
         THEN LET e == WordRunEnd(s, i + 1)
              IN  <<SubSeq(s, i + 1, e - 1)>> \o FindAllTags(s, e)
         ELSE FindAllTags(s, i + 1)

\* re.sub(r'\s*#\w+', '', s), scanning from index i
RECURSIVE SubTags(_, _)
SubTags(s, i) ==
    IF i > Len(s) THEN <<>>
    ELSE LET j == SpaceRunEnd(s, i)
         IN  IF TokenAt(s, j)
             THEN SubTags(s, WordRunEnd(s, j + 1))
             ELSE <<s[i]>> \o SubTags(s, i + 1)

extract_tags_no_strip(title) ==
    [clean_title |-> SubTags(title, 1), tags |-> FindAllTags(title, 1)]

extract_tags_from_title(title) ==
    [clean_title |-> Strip(SubTags(title, 1)), tags |-> FindAllTags(title, 1)]

(***************************************************************************)
(* combine_tags                                                            *)
(***************************************************************************)
\* the loop of combine_tags over all_tags from index i, with the tags kept so far
RECURSIVE UniqueTags(_, _, _, _)
UniqueTags(all_tags, i, seen, unique_tags) ==
    IF i > Len(all_tags) THEN unique_tags
    ELSE LET tag == all_tags[i]
         IN  IF Lower(tag) \notin seen
             THEN UniqueTags(all_tags, i + 1, seen \cup {Lower(tag)},
                             Append(unique_tags, tag))
             ELSE UniqueTags(all_tags, i + 1, seen, unique_tags)

\* the same loop comparing the tags as written (case-sensitively)
RECURSIVE UniqueTagsExact(_, _, _, _)
UniqueTagsExact(all_tags, i, seen, unique_tags) ==
    IF i > Len(all_tags) THEN unique_tags
    ELSE LET tag == all_tags[i]
         IN  IF tag \notin seen
             THEN UniqueTagsExact(all_tags, i + 1, seen \cup {tag},
                                  Append(unique_tags, tag))
             ELSE UniqueTagsExact(all_tags, i + 1, seen, unique_tags)

combine_tags_case_sensitive(hashtags, native_tags) ==
    UniqueTagsExact(hashtags \o native_tags, 1, {}, <<>>)

combine_tags(hashtags, native_tags) ==
    UniqueTags(hashtags \o native_tags, 1, {}, <<>>)

(***************************************************************************)
(* format_section                                                          *)
(***************************************************************************)
format_section(list_name) ==
    IF ~Truthy(list_name) THEN <<>>
    ELSE IF list_name[Len(list_name)] = ":"
         THEN Strip(SubSeq(list_name, 1, Len(list_name) - 1))
         ELSE list_name

(***************************************************************************)
(* format_date                                                             *)
(***************************************************************************)
DigitVal(c) ==
    CASE c = "0" -> 0 [] c = "1" -> 1 [] c = "2" -> 2 [] c = "3" -> 3
      [] c = "4" -> 4 [] c = "5" -> 5 [] c = "6" -> 6 [] c = "7" -> 7
      [] c = "8" -> 8 [] c = "9" -> 9

DigitChar(n) ==
    CASE n = 0 -> "0" [] n = 1 -> "1" [] n = 2 -> "2" [] n = 3 -> "3"
      [] n = 4 -> "4" [] n = 5 -> "5" [] n = 6 -> "6" [] n = 7 -> "7"
      [] n = 8 -> "8" [] n = 9 -> "9"

\* characters i..j of s are all decimal digits
AllDigits(s, i, j) == j <= Len(s) /\ \A k \in i..j : s[k] \in Digits

\* the number written in characters i..j of s
RECURSIVE NumAt(_, _, _)
NumAt(s, i, j) == IF j < i THEN 0 ELSE NumAt(s, i, j - 1) * 10 + DigitVal(s[j])

\* n written in decimal with exactly w digits, zero-padded
RECURSIVE ZeroPad(_, _)
ZeroPad(n, w) == IF w = 0 THEN <<>> ELSE ZeroPad(n \div 10, w - 1) \o <<DigitChar(n % 10)>>

\* n written in decimal without padding
RECURSIVE Decimal(_)
Decimal(n) == IF n < 10 THEN <<DigitChar(n)>> ELSE Decimal(n \div 10) \o <<DigitChar(n % 10)>>

IsLeap(y) == (y % 4 = 0 /\ y % 100 # 0) \/ y % 400 = 0

DaysInMonth(y, m) ==
    CASE m \in {1, 3, 5, 7, 8, 10, 12} -> 31
      [] m \in {4, 6, 9, 11} -> 30
      [] OTHER -> IF IsLeap(y) THEN 29 ELSE 28

\* str.replace('Z', '+00:00')
RECURSIVE ReplaceZ(_)
ReplaceZ(s) ==
    IF s = <<>> THEN <<>>
    ELSE IF Head(s) = "Z" THEN <<"+", "0", "0", ":", "0", "0">> \o ReplaceZ(Tail(s))
    ELSE <<Head(s)>> \o ReplaceZ(Tail(s))

\* the character at index i of the UTF-8 buffer of s; the buffer ends with a
\* NUL, written "" here, which is what the parser reads at index Len(s) + 1
CharAt(s, i) == IF i \in 1..Len(s) THEN s[i] ELSE ""

\* _find_isoformat_datetime_separator(dtstr, len): the number of characters
\* of the date part, told from characters 5 and 6 (YYYY-MM-DD 10, YYYYMMDD 8,
\* YYYY-Www 8, YYYYWww 7, YYYY-Www-d 10, YYYYWwwd 8), or -1
find_isoformat_datetime_separator(s) ==
    LET len == Len(s)
        \* idx counts, from 0, to the first character after index 7 that is no digit
        basic_week(idx) == IF idx < 9 THEN idx ELSE IF idx % 2 = 0 THEN 7 ELSE 8
    IN  IF len = 7 THEN 7
        ELSE IF CharAt(s, 5) = "-"
        THEN IF CharAt(s, 6) = "W"
             THEN IF len < 8 THEN -1
                  ELSE IF len > 8 /\ s[9] = "-"
                  THEN IF len = 9 THEN -1
                       ELSE IF len > 10 /\ s[11] \in Digits THEN 8
                       ELSE 10
                  ELSE 8
             ELSE 10
        ELSE IF CharAt(s, 5) = "W"
        THEN IF \E k \in 8..len : s[k] \notin Digits
             THEN basic_week((CHOOSE k \in 8..len :
                                 s[k] \notin Digits /\ \A j \in 8..(k - 1) : s[j] \in Digits) - 1)
             ELSE basic_week(IF len < 7 THEN 7 ELSE len)
        ELSE 8

\* iso_to_ymd(iso_year, iso_week, iso_day): the calendar date of an ISO week
\* date; rv is -2 for a week and -3 for a day out of range.  The local
\* operators are the steps of ymd_to_ord, weekday, iso_week1_monday and
\* ord_to_ymd of the datetime module, each taking what the C code holds in
\* its local variables at that point.
iso_to_ymd(iso_year, iso_week, iso_day) ==
    LET ymd(rv, year, month, day) == [rv |-> rv, year |-> year, month |-> month, day |-> day]
        \* _days_before_month[m], one more after February of a leap year
        preceding(m, leapyear) ==
            <<0, 31, 59, 90, 120, 151, 181, 212, 243, 273, 304, 334, 365>>[m]
                + (IF m > 2 /\ leapyear THEN 1 ELSE 0)
        month_day(year, n, leapyear, month) ==
            IF preceding(month, leapyear) > n
            THEN ymd(0, year, month - 1, n - preceding(month - 1, leapyear) + 1)
            ELSE ymd(0, year, month, n - preceding(month, leapyear) + 1)
        in_year(year, n100, n4, n1, n) ==
            IF n1 = 4 \/ n100 = 4 THEN ymd(0, year - 1, 12, 31)
            ELSE month_day(year, n, n1 = 3 /\ (n4 # 24 \/ n100 = 3), (n + 50) \div 32)
        in_4_years(n400, n100, n4, n) ==
            in_year(n400 * 400 + 1 + n100 * 100 + n4 * 4 + n \div 365,
                    n100, n4, n \div 365, n % 365)
        in_100_years(n400, n100, n) == in_4_years(n400, n100, n \div 1461, n % 1461)
        in_400_years(n400, n) == in_100_years(n400, n \div 36524, n % 36524)
        \* ord_to_ymd(ordinal), n being ordinal - 1
        ord_to_ymd(n) == in_400_years(n \div 146097, n % 146097)
        \* first_day is the ordinal of 1 January, first_weekday its weekday
        week_date(first_day, first_weekday) ==
            IF /\ iso_week <= 0 \/ iso_week >= 53
               /\ ~(/\ iso_week = 53
                    /\ first_weekday = 3 \/ (first_weekday = 2 /\ IsLeap(iso_year)))
            THEN ymd(-2, 0, 0, 0)
            ELSE IF iso_day <= 0 \/ iso_day >= 8 THEN ymd(-3, 0, 0, 0)
            ELSE ord_to_ymd(first_day - first_weekday
                                + (IF first_weekday > 3 THEN 7 ELSE 0)
                                + (iso_week - 1) * 7 + iso_day - 1 - 1)
        from_first_day(first_day) == week_date(first_day, (first_day + 6) % 7)
        days_before_year(y) == y * 365 + y \div 4 - y \div 100 + y \div 400
    IN  from_first_day(days_before_year(iso_year - 1) + 1)

\* parse_isoformat_date(dtstr, len, &year, &month, &day): rv is 0 with the
\* date read, -1 for bad digits, -2 for an inconsistent '-', -3 and below for
\* a bad ISO week date.  len is unsigned, so -1 is larger than every index.
\* p is the index after the year and its '-', q the index after the two
\* digits of the month or of the week.
parse_isoformat_date(s, len) ==
    LET failed(rv) == [rv |-> rv, year |-> 0, month |-> 0, day |-> 0]
        week_result(week) == IF week.rv # 0 THEN failed(-3 + week.rv) ELSE week
        \* d is the index of the digit of the day, read when more follows the week
        week_date(uses_separator, p, more, d) ==
            IF ~AllDigits(s, p + 1, p + 2) THEN failed(-3)
            ELSE IF more /\ uses_separator /\ CharAt(s, p + 3) # "-" THEN failed(-2)
            ELSE IF more /\ ~AllDigits(s, d, d) THEN failed(-4)
            ELSE week_result(iso_to_ymd(NumAt(s, 1, 4), NumAt(s, p + 1, p + 2),
                                        IF more THEN NumAt(s, d, d) ELSE 1))
        calendar_date(uses_separator, p, d) ==
            IF ~AllDigits(s, p, p + 1) THEN failed(-1)
            ELSE IF uses_separator /\ CharAt(s, p + 2) # "-" THEN failed(-2)
            ELSE IF ~AllDigits(s, d, d + 1) THEN failed(-1)
            ELSE [rv |-> 0, year |-> NumAt(s, 1, 4), month |-> NumAt(s, p, p + 1),
                  day |-> NumAt(s, d, d + 1)]
        after_year(uses_separator, p) ==
            IF CharAt(s, p) = "W"
            THEN week_date(uses_separator, p, len < 0 \/ p + 2 < len,
                           IF uses_separator THEN p + 4 ELSE p + 3)
            ELSE calendar_date(uses_separator, p, IF uses_separator THEN p + 3 ELSE p + 2)
    IN  IF ~AllDigits(s, 1, 4) THEN failed(-1)
        ELSE IF CharAt(s, 5) = "-" THEN after_year(TRUE, 6)
        ELSE after_year(FALSE, 5)

\* parse_hh_mm_ss_ff(tstr, tstr_end, ...) from round i (0 hour, 1 minute,
\* 2 second) of its loop on, reading at index p; tstr_end is the index e and
\* vals holds <<hour, minute, second>>.  rv is 0 when the string ends where
\* the parse ends, 1 when more follows, -3 for bad digits and -4 for a bad
\* separator.  The microseconds are read and checked but not kept: neither
\* the date nor the range of an offset depends on them.
RECURSIVE parse_hh_mm_ss_ff(_, _, _, _, _, _)
parse_hh_mm_ss_ff(s, e, i, p, has_separator, vals) ==
    LET fraction(q, to_parse, v) ==
            IF ~AllDigits(s, q, q + to_parse - 1) THEN [rv |-> -3, vals |-> v]
            ELSE IF \A k \in (q + to_parse)..Len(s) : s[k] \in Digits
            THEN [rv |-> 0, vals |-> v]
            ELSE [rv |-> 1, vals |-> v]
        \* c is the character after the two digits, read is vals with them
        round(c, separated, read) ==
            IF p + 3 >= e THEN [rv |-> IF c = "" THEN 0 ELSE 1, vals |-> read]
            ELSE IF separated /\ c = ":"
            THEN parse_hh_mm_ss_ff(s, e, i + 1, p + 3, separated, read)
            ELSE IF c \in {".", ","}
            THEN fraction(p + 3, IF e - (p + 3) >= 6 THEN 6 ELSE e - (p + 3), read)
            ELSE IF ~separated THEN parse_hh_mm_ss_ff(s, e, i + 1, p + 2, separated, read)
            ELSE [rv |-> -4, vals |-> read]
    IN  IF i = 3 THEN fraction(p, IF e - p >= 6 THEN 6 ELSE e - p, vals)
        ELSE IF ~AllDigits(s, p, p + 1) THEN [rv |-> -3, vals |-> vals]
        ELSE round(CharAt(s, p + 2),
                   IF i = 0 THEN CharAt(s, p + 2) = ":" ELSE has_separator,
                   [vals EXCEPT ![i + 1] = NumAt(s, p, p + 1)])

\* parse_isoformat_time(dtstr, dtlen, ...) for the time that starts at index
\* b of s: rv is 0 without and 1 with a UTC offset (tzoffset, in seconds),
\* negative when the time or the offset is malformed.  What the time parser
\* leaves unread before the offset is ignored, as in the C code.
parse_isoformat_time(s, b) ==
    LET result(rv, vals, tzoffset) ==
            [rv |-> rv, hour |-> vals[1], minute |-> vals[2], second |-> vals[3],
             tzoffset |-> tzoffset]
        with_offset(time, tz, tzsign) ==
            IF tz.rv # 0 THEN result(-5, time.vals, 0)
            ELSE result(1, time.vals,
                        tzsign * (tz.vals[1] * 3600 + tz.vals[2] * 60 + tz.vals[3]))
        after_time(time, tzinfo_pos) ==
            IF time.rv < 0 THEN result(time.rv, time.vals, 0)
            ELSE IF tzinfo_pos = Len(s) + 1
            THEN result(IF time.rv = 1 THEN -5 ELSE 0, time.vals, 0)
            ELSE IF s[tzinfo_pos] = "Z"
            THEN result(IF tzinfo_pos + 1 <= Len(s) THEN -5 ELSE 1, time.vals, 0)
            ELSE with_offset(time,
                             parse_hh_mm_ss_ff(s, Len(s) + 1, 0, tzinfo_pos + 1, TRUE,
                                               <<0, 0, 0>>),
                             IF s[tzinfo_pos] = "-" THEN -1 ELSE 1)
        time_before(tzinfo_pos) ==
            after_time(parse_hh_mm_ss_ff(s, tzinfo_pos, 0, b, TRUE, <<0, 0, 0>>), tzinfo_pos)
    IN  IF \E k \in b..Len(s) : s[k] \in {"Z", "+", "-"}
        THEN time_before(CHOOSE k \in b..Len(s) :
                             /\ s[k] \in {"Z", "+", "-"}
                             /\ \A j \in b..(k - 1) : s[j] \notin {"Z", "+", "-"})
        ELSE time_before(Len(s) + 1)

\* datetime.fromisoformat(s) of CPython 3.11 for a string of ASCII characters:
\* the date of the parsed datetime, or ok = FALSE where it raises ValueError.
\* The character after the date part separates date and time, whatever it is.
fromisoformat(s) ==
    LET invalid == [ok |-> FALSE, year |-> 0, month |-> 0, day |-> 0]
        new_datetime(date, has_time, time) ==
            IF date.rv # 0 THEN invalid
            ELSE IF has_time /\ time.rv < 0 THEN invalid
            \* timezone(timedelta) takes offsets strictly between -24 and 24 hours
            ELSE IF has_time /\ time.rv = 1 /\ ~(time.tzoffset \in -86399..86399)
            THEN invalid
            \* new_datetime_ex checks the ranges of the date and of the time
            ELSE IF ~(/\ date.year \in 1..9999 /\ date.month \in 1..12
                      /\ date.day \in 1..DaysInMonth(date.year, date.month))
            THEN invalid
            ELSE IF has_time /\ ~(time.hour < 24 /\ time.minute < 60 /\ time.second < 60)
            THEN invalid
            ELSE [ok |-> TRUE, year |-> date.year, month |-> date.month, day |-> date.day]
        parts(separator_location) ==
            new_datetime(parse_isoformat_date(s, separator_location),
                         Len(s) > separator_location,
                         parse_isoformat_time(s, separator_location + 2))
    IN  IF Len(s) < 7 THEN invalid
        ELSE parts(find_isoformat_datetime_separator(s))

\* dt.strftime('%m/%d/%Y'): month and day are padded to two digits, the year
\* is written by the C library without padding
strftime_mdY(dt) ==
    ZeroPad(dt.month, 2) \o <<"/">> \o ZeroPad(dt.day, 2) \o <<"/">> \o Decimal(dt.year)

\* the outcome of a call: exc = "" and the value returned, or the exception
\* raised; stdout is what the call printed, one entry per print statement
\* executed, in order: the line of the statement in asana_convert.py
Returned(v) == [exc |-> "", value |-> v, stdout |-> <<>>]
Raised(e) == [exc |-> e, value |-> <<>>, stdout |-> <<>>]

\* a verbose run that returns the text it could not convert
format_date_echoing(date_string, a) ==
    LET formatted(dt) ==
            IF dt.ok THEN Returned(strftime_mdY(dt))
            ELSE IF ~a.defined THEN Raised("NameError")
            ELSE IF a.verbose THEN [Returned(date_string) EXCEPT !.stdout = <<73>>]
            ELSE Returned(<<>>)
    IN  IF ~Truthy(date_string) THEN Returned(<<>>)
        ELSE formatted(fromisoformat(ReplaceZ(date_string)))

\* a is the module-level global `args` at the time of the call; the except
\* branch reads args.verbose, which raises NameError while args is not
\* defined, and prints the warning of line 73 when the flag is set
format_date(date_string, a) ==
    LET formatted(dt) ==
            IF dt.ok THEN Returned(strftime_mdY(dt))
            ELSE IF ~a.defined THEN Raised("NameError")
            ELSE IF a.verbose THEN [Returned(<<>>) EXCEPT !.stdout = <<73>>]
            ELSE Returned(<<>>)
    IN  IF ~Truthy(date_string) THEN Returned(<<>>)
        ELSE formatted(fromisoformat(ReplaceZ(date_string)))

(***************************************************************************)
(* detect_json_format                                                      *)
(***************************************************************************)
\* A JSON value that is no reminder record carries its type: a list with its
\* items, or a value of another type, of kind "scalar" (null, a number or a
\* boolean, which cannot be iterated), "text" (a string, iterated by
\* character) or "object" (an object, iterated by key), with its len().
JsonList(items) == [is_list |-> TRUE, kind |-> "list", items |-> items]
JsonOther(kind, len) == [is_list |-> FALSE, kind |-> kind, len |-> len]

detect_json_format_any_reminders(json_data) ==
    IF "reminders" \in DOMAIN json_data THEN "bulk"
    ELSE IF "Title" \in DOMAIN json_data \/ "title" \in DOMAIN json_data THEN "single"
    ELSE "unknown"

detect_json_format(json_data) ==
    IF "reminders" \in DOMAIN json_data /\ json_data["reminders"].is_list THEN "bulk"
    ELSE IF "Title" \in DOMAIN json_data \/ "title" \in DOMAIN json_data THEN "single"
    ELSE "unknown"

(***************************************************************************)
(* convert_json_to_asana_row                                               *)
(***************************************************************************)
\* s.split(sep) for a one-character separator
RECURSIVE Split(_, _)
Split(s, sep) ==
    IF \A i \in 1..Len(s) : s[i] # sep THEN <<s>>
    ELSE LET k == CHOOSE i \in 1..Len(s) : s[i] = sep /\ \A j \in 1..(i - 1) : s[j] # sep
         IN  <<SubSeq(s, 1, k - 1)>> \o Split(SubSeq(s, k + 1, Len(s)), sep)

\* default_assignee or ''
AssigneeEmail(default_assignee) ==
    IF Truthy(default_assignee) THEN default_assignee ELSE <<>>

\* firstname.lastname@domain -> Firstname Lastname
AssigneeName(assignee_email) ==
    IF assignee_email = <<>> THEN <<>>
    ELSE LET local_part == Split(assignee_email, "@")[1]
         IN  IF \E i \in 1..Len(local_part) : local_part[i] = "."
             THEN LET name_parts == Split(local_part, ".")
                  IN  Join(<<" ">>, [i \in 1..Len(name_parts) |-> Capitalize(name_parts[i])])
             ELSE Capitalize(local_part)

\* a record uses the capitalized keys of the old export format
IsOldFormat(json_data) == "Title" \in DOMAIN json_data

\* the completion flag of a record under its own schema
IsCompleted(reminder) ==
    IF "Title" \in DOMAIN reminder
    THEN Get(reminder, "Is Completed", FALSE)
    ELSE Get(reminder, "done", "") = "Ja"

\* the metadata lines of a new-format record, in the order they are appended
AdditionalInfo(json_data, with_subtask_count) ==
    (IF Get(json_data, "flagged", "") = "Ja" THEN << <<"<star> Flagged">> >> ELSE <<>>)
    \o (IF Get(json_data, "has_reminder", "") = "Ja"
        THEN << <<"<bell> Has Reminder">> >> ELSE <<>>)
    \o (IF Truthy(Get(json_data, "reminder_location", <<>>))
        THEN << <<"<pin> Location: ">> \o json_data["reminder_location"] >> ELSE <<>>)
    \o (IF Truthy(Get(json_data, "url", <<>>))
        THEN << <<"<link> URL: ">> \o json_data["url"] >> ELSE <<>>)
    \o (IF with_subtask_count /\ Get(json_data, "subtasks", <<>>) # <<>>
        THEN << <<"<memo> ">> \o Decimal(Len(json_data["subtasks"])) \o <<" subtasks">> >>
        ELSE <<>>)

\* the description with the metadata lines appended
WithAdditionalInfo(text, additional_info) ==
    IF additional_info = <<>> THEN text
    ELSE IF text # <<>> THEN text \o <<"\n", "\n">> \o Join(<<"\n">>, additional_info)
    ELSE Join(<<"\n">>, additional_info)

\* a title made only of tags: the row keeps no name
RowNameCleanOnly(clean_title, title) == clean_title

\* clean_title or title
RowName(clean_title, title) == IF clean_title # <<>> THEN clean_title ELSE title

LegacyFieldnames ==
    <<"Name", "Description", "Target Section", "Assignee", "Assignee Email",
      "Due Date", "Tags", "Priority">>

\* the elements of a sequence, as a set
Range(f) == {f[i] : i \in DOMAIN f}

convert_json_to_asana_row(json_data, default_assignee, a) ==
    LET is_old_format == IsOldFormat(json_data)
        title == IF is_old_format THEN Get(json_data, "Title", <<>>)
                 ELSE Get(json_data, "title", <<>>)
        notes == IF is_old_format THEN Get(json_data, "Notes", <<>>)
                 ELSE Get(json_data, "notes", <<>>)
        list_name == IF is_old_format THEN Get(json_data, "List", <<>>)
                     ELSE Get(json_data, "list", <<>>)
        due_date == IF is_old_format THEN Get(json_data, "Due Date", <<>>)
                    ELSE Get(json_data, "due_date", <<>>)
        priority == IF is_old_format THEN Get(json_data, "Priority", "")
                    ELSE Get(json_data, "prio", "")
        native_tags == IF is_old_format THEN <<>> ELSE Get(json_data, "tags", <<>>)
        extracted == extract_tags_from_title(title)
        clean_title == extracted.clean_title
        all_tags == combine_tags(extracted.tags, native_tags)
        assignee_email == AssigneeEmail(default_assignee)
        description == IF is_old_format THEN notes
                       ELSE WithAdditionalInfo(notes, AdditionalInfo(json_data, TRUE))
        \* the row, after format_date(due_date) returned or raised
        row(date) ==
            IF date.exc # "" THEN Raised(date.exc)
            ELSE [Returned(
                ("Name" :> RowName(clean_title, title)) @@
                ("Description" :> description) @@
                ("Target Section" :> format_section(list_name)) @@
                ("Assignee" :> AssigneeName(assignee_email)) @@
                ("Assignee Email" :> assignee_email) @@
                ("Due Date" :> date.value) @@
                ("Tags" :> Join(<<",", " ">>, all_tags)) @@
                ("Priority" :> map_priority(priority, "en")))
                  EXCEPT !.stdout = date.stdout]
    IN  row(format_date(due_date, a))

(***************************************************************************)
(* convert_to_asana_format                                                 *)
(***************************************************************************)
\* the line a subtask adds to the notes of its parent
SubtaskInfo(subtask) ==
    <<"<memo> Subtask: ">> \o Get(subtask, "title", <<"Untitled Subtask">>)
    \o (IF Truthy(Get(subtask, "notes", <<>>)) THEN <<" - ">> \o subtask["notes"] ELSE <<>>)

\* the loop over the subtasks from index i, appending to the parent's notes
RECURSIVE WithSubtasks(_, _, _)
WithSubtasks(text, subtasks, i) ==
    IF i > Len(subtasks) THEN text
    ELSE WithSubtasks(IF text # <<>> THEN text \o <<"\n">> \o SubtaskInfo(subtasks[i])
                      ELSE SubtaskInfo(subtasks[i]),
                      subtasks, i + 1)

\* the row of one reminder in the loop of convert_to_asana_format
AsanaMainTask(reminder, default_assignee, language, a) ==
    LET is_old_format == IsOldFormat(reminder)
        title == IF is_old_format THEN Get(reminder, "Title", <<>>)
                 ELSE Get(reminder, "title", <<>>)
        notes == IF is_old_format THEN Get(reminder, "Notes", <<>>)
                 ELSE Get(reminder, "notes", <<>>)
        list_name == IF is_old_format THEN Get(reminder, "List", <<>>)
                     ELSE Get(reminder, "list", <<>>)
        due_date == IF is_old_format THEN Get(reminder, "Due Date", <<>>)
                    ELSE Get(reminder, "due_date", <<>>)
        priority == IF is_old_format THEN Get(reminder, "Priority", "")
                    ELSE Get(reminder, "prio", "")
        native_tags == IF is_old_format THEN <<>> ELSE Get(reminder, "tags", <<>>)
        subtasks == IF is_old_format THEN <<>> ELSE Get(reminder, "subtasks", <<>>)
        extracted == extract_tags_from_title(title)
        clean_title == extracted.clean_title
        all_tags == combine_tags(extracted.tags, native_tags)
        assignee_email == AssigneeEmail(default_assignee)
        priority_field == IF language = "de" THEN "Priorit<U+221A><U+00A7>t" ELSE "Priority"
        with_info == IF is_old_format THEN notes
                     ELSE WithAdditionalInfo(notes, AdditionalInfo(reminder, FALSE))
        \* the row, after format_date(due_date) returned or raised
        main_task(date) ==
            IF date.exc # "" THEN Raised(date.exc)
            ELSE [Returned(
                ("Name" :> RowName(clean_title, title)) @@
                ("Assignee Email" :> assignee_email) @@
                ("Due Date" :> date.value) @@
                ("Tags" :> Join(<<",", " ">>, all_tags)) @@
                ("Notes" :> WithSubtasks(with_info, subtasks, 1)) @@
                ("Section/Column" :> format_section(list_name)) @@
                (priority_field :> map_priority(priority, language)))
                  EXCEPT !.stdout = date.stdout]
    IN  main_task(format_date(due_date, a))

\* the loop over the reminders from index i, with the rows built and the
\* lines printed so far
RECURSIVE AsanaRows(_, _, _, _, _, _, _)
AsanaRows(reminders, i, asana_rows, stdout, default_assignee, language, a) ==
    IF i > Len(reminders) THEN [Returned(asana_rows) EXCEPT !.stdout = stdout]
    ELSE LET appended(main_task) ==
                 IF main_task.exc # "" THEN [Raised(main_task.exc) EXCEPT !.stdout = stdout]
                 ELSE AsanaRows(reminders, i + 1, Append(asana_rows, main_task.value),
                                stdout \o main_task.stdout, default_assignee, language, a)
         IN  appended(AsanaMainTask(reminders[i], default_assignee, language, a))

convert_to_asana_format(reminders, default_assignee, language, a) ==
    AsanaRows(reminders, 1, <<>>, <<>>, default_assignee, language, a)

(***************************************************************************)
(* process_bulk_json                                                       *)
(***************************************************************************)
\* The loop over the reminders from index i.  The value returned is the list
\* converted_rows; kept (the index of the reminder each row was built from),
\* skipped_count and stdout (the lines printed so far) are carried along
\* with it.  With verbose set a skipped reminder prints line 415, a
\* converted one line 424, and the end of a loop that skipped line 427.
RECURSIVE BulkLoop(_, _, _, _, _, _, _, _)
BulkLoop(reminders, i, converted_rows, kept, skipped_count, stdout, default_assignee, opts) ==
    IF i > Len(reminders)
    THEN [exc |-> "", value |-> converted_rows, kept |-> kept,
          skipped_count |-> skipped_count,
          stdout |-> stdout \o (IF opts.verbose /\ skipped_count > 0 THEN <<427>>
                                ELSE <<>>)]
    \* an item that is no object: `'Title' in reminder` raises TypeError on a
    \* scalar, and reminder.get raises AttributeError on a string or a list
    ELSE IF "is_list" \in DOMAIN reminders[i] /\ reminders[i].kind # "object"
    THEN [exc |-> IF reminders[i].kind = "scalar" THEN "TypeError" ELSE "AttributeError",
          value |-> <<>>, kept |-> kept, skipped_count |-> skipped_count,
          stdout |-> stdout]
    ELSE IF ~opts.include_completed /\ IsCompleted(reminders[i])
    THEN BulkLoop(reminders, i + 1, converted_rows, kept, skipped_count + 1,
                  stdout \o (IF opts.verbose THEN <<415>> ELSE <<>>),
                  default_assignee, opts)
    ELSE LET converted(row) ==
                 IF row.exc # ""
                 THEN [exc |-> row.exc, value |-> <<>>, kept |-> kept,
                       skipped_count |-> skipped_count, stdout |-> stdout]
                 ELSE BulkLoop(reminders, i + 1, Append(converted_rows, row.value),
                               Append(kept, i), skipped_count,
                               stdout \o row.stdout
                                   \o (IF opts.verbose THEN <<424>> ELSE <<>>),
                               default_assignee, opts)
         IN  converted(convert_json_to_asana_row(reminders[i], default_assignee, opts.args))

process_bulk_json(json_data, default_assignee, include_completed, verbose, a) ==
    IF "reminders" \notin DOMAIN json_data
    THEN [exc |-> "ValueError", value |-> <<>>, kept |-> <<>>, skipped_count |-> 0,
          stdout |-> <<>>]
    \* enumerate(reminders) raises TypeError on a value that cannot be iterated
    ELSE IF json_data["reminders"].kind = "scalar"
    THEN [exc |-> "TypeError", value |-> <<>>, kept |-> <<>>, skipped_count |-> 0,
          stdout |-> <<>>]
    \* the characters of a string and the keys of an object are strings, and
    \* the first one raises AttributeError at reminder.get; an empty string or
    \* object gives an empty loop
    ELSE IF ~json_data["reminders"].is_list /\ json_data["reminders"].len > 0
    THEN [exc |-> "AttributeError", value |-> <<>>, kept |-> <<>>, skipped_count |-> 0,
          stdout |-> <<>>]
    ELSE IF ~json_data["reminders"].is_list
    THEN [exc |-> "", value |-> <<>>, kept |-> <<>>, skipped_count |-> 0,
          stdout |-> <<>>]
    ELSE BulkLoop(json_data["reminders"].items, 1, <<>>, <<>>, 0, <<>>, default_assignee,
                  [include_completed |-> include_completed, verbose |-> verbose,
                   args |-> a])

(***************************************************************************)
(* write_csv_file                                                          *)
(***************************************************************************)
\* A file that was not written is NoFile; a written file holds its header,
\* its data lines (one value per header column) and its encoding.  writable
\* says whether open(filepath, 'w') succeeds on the path.
NoFile ==
    [exists |-> FALSE, fieldnames |-> <<>>, rows |-> <<>>, encoding |-> "", writable |-> TRUE]

\* a path on which open(filepath, 'w') raises OSError (PermissionError, or
\* FileNotFoundError for a directory that does not exist)
UnwritableFile == [NoFile EXCEPT !.writable = FALSE]

\* DictWriter's line for a row: the value of every header column, the empty
\* string for a column the row lacks
CsvLine(row, fieldnames) ==
    [i \in 1..Len(fieldnames) |-> Get(row, fieldnames[i], <<>>)]

\* DictWriter raises ValueError for a row holding a key outside the header
HasExtraKey(row, fieldnames) == \E k \in DOMAIN row : k \notin Range(fieldnames)

\* the number of rows before the first one DictWriter refuses
RECURSIVE RowsAccepted(_, _, _)
RowsAccepted(rows, fieldnames, i) ==
    IF i > Len(rows) \/ HasExtraKey(rows[i], fieldnames) THEN i - 1
    ELSE RowsAccepted(rows, fieldnames, i + 1)

\* a writer that ignores dry_run
write_csv_file_ignoring_dry_run(files, filepath, rows, dry_run, asana_format, language) ==
    LET fieldnames == IF asana_format THEN get_asana_fieldnames(language)
                      ELSE LegacyFieldnames
        n == RowsAccepted(rows, fieldnames, 1)
    IN  [exc |-> IF n < Len(rows) THEN "ValueError" ELSE "",
         files |-> [files EXCEPT ![filepath] =
                       [exists |-> TRUE, fieldnames |-> fieldnames,
                        rows |-> [i \in 1..n |-> CsvLine(rows[i], fieldnames)],
                        encoding |-> IF asana_format THEN "utf-8-sig" ELSE "utf-8",
                        writable |-> TRUE]],
         printed |-> <<>>, calls |-> 1]

\* files is the state of the output files before the call; the result holds
\* their state after it, the exception raised, if any, the row counts
\* printed by "[DRY RUN] Would write N rows", and calls |-> 1 for this call.
\* open() on an unwritable path raises before anything is written.
write_csv_file(files, filepath, rows, dry_run, asana_format, language) ==
    IF dry_run THEN [exc |-> "", files |-> files, printed |-> <<Len(rows)>>, calls |-> 1]
    ELSE IF ~files[filepath].writable
    THEN [exc |-> "OSError", files |-> files, printed |-> <<>>, calls |-> 1]
    ELSE LET fieldnames == IF asana_format THEN get_asana_fieldnames(language)
                           ELSE LegacyFieldnames
             encoding == IF asana_format THEN "utf-8-sig" ELSE "utf-8"
             n == RowsAccepted(rows, fieldnames, 1)
             written == [exists |-> TRUE, fieldnames |-> fieldnames,
                         rows |-> [i \in 1..n |-> CsvLine(rows[i], fieldnames)],
                         encoding |-> encoding, writable |-> TRUE]
         IN  [exc |-> IF n < Len(rows) THEN "ValueError" ELSE "",
              files |-> [files EXCEPT ![filepath] = written],
              printed |-> <<>>, calls |-> 1]

(***************************************************************************)
(* process_single_file                                                     *)
(***************************************************************************)
\* An input file: a JSON document, text that is no JSON (json.load raises
\* JSONDecodeError), or no readable file (open raises FileNotFoundError).
JsonFile(doc) == [kind |-> "json", doc |-> doc]
InvalidJsonFile == [kind |-> "invalid", doc |-> <<>>]
MissingFile == [kind |-> "missing", doc |-> <<>>]

\* a second filter that reads only the legacy flag 'Is Completed'
RECURSIVE FilteredRemindersLegacyFlag(_, _, _)
FilteredRemindersLegacyFlag(reminders, i, include_completed) ==
    IF i > Len(reminders) THEN <<>>
    ELSE (IF include_completed \/ ~Get(reminders[i], "Is Completed", FALSE)
          THEN <<i>> ELSE <<>>)
         \o FilteredRemindersLegacyFlag(reminders, i + 1, include_completed)

\* the reminders of a bulk document that the asana branch filters again
RECURSIVE FilteredReminders(_, _, _)
FilteredReminders(reminders, i, include_completed) ==
    IF i > Len(reminders) THEN <<>>
    ELSE (IF include_completed \/ ~IsCompleted(reminders[i]) THEN <<i>> ELSE <<>>)
         \o FilteredReminders(reminders, i + 1, include_completed)

\* The outcome of a run over one file: the value returned, the state of the
\* output files, and for the rows handed to write_csv_file the reminders
\* they were built from (sources) in the order of the rows.  exc is the
\* exception that leaves process_single_file ("" when it returns), caught
\* the exception its except clauses caught ("" when there was none), and
\* stdout the lines printed.
FileOutcome(success, files, rows, sources) ==
    [success |-> success, files |-> files, rows |-> rows, sources |-> sources, writes |-> 0,
     exc |-> "", caught |-> "", stdout |-> <<>>]

\* no except clause but the one for json.JSONDecodeError: every other
\* exception leaves the function
CaughtJsonOnly(exc, files) ==
    [FileOutcome(FALSE, files, <<>>, <<>>)
        EXCEPT !.exc = IF exc = "JSONDecodeError" THEN "" ELSE exc,
               !.caught = IF exc = "JSONDecodeError" THEN exc ELSE "",
               !.stdout = IF exc = "JSONDecodeError" THEN <<534>> ELSE <<>>]

\* an exception raised inside the try block: `except json.JSONDecodeError`
\* (line 534) and `except Exception` (line 537) print it and return False
Caught(exc, files) ==
    [FileOutcome(FALSE, files, <<>>, <<>>)
        EXCEPT !.caught = exc,
               !.stdout = IF exc = "JSONDecodeError" THEN <<534>> ELSE <<537>>]

\* the value returned after the write at the end of a branch: an exception
\* in write_csv_file is caught by `except Exception` and gives False.  A
\* dry run prints line 266 inside write_csv_file; done is what the branch
\* prints after a write that returned.
Written(w, rows, sources, done) ==
    [(IF w.exc = "" THEN FileOutcome(TRUE, w.files, rows, sources)
      ELSE Caught(w.exc, w.files))
        EXCEPT !.rows = rows, !.sources = sources, !.writes = w.calls,
               !.stdout = IF w.exc = "" THEN [n \in 1..Len(w.printed) |-> 266] \o done
                          ELSE @]

WriteOutcome(files, output_path, rows, sources, dry_run, asana_format, language, done) ==
    Written(write_csv_file(files, output_path, rows, dry_run, asana_format, language),
            rows, sources, done)

\* the asana branches, after convert_to_asana_format returned or raised
\* (having printed asana.stdout)
AsanaOutcome(asana, reminders, files, output_path, dry_run, language, done) ==
    [(IF asana.exc # "" THEN Caught(asana.exc, files)
      ELSE WriteOutcome(files, output_path, asana.value, reminders, dry_run, TRUE,
                        language, done))
        EXCEPT !.stdout = asana.stdout \o @]

\* the reminders at the indices idx
RemindersAt(reminders, idx) == [n \in 1..Len(idx) |-> reminders[idx[n]]]

\* the asana branch of a bulk document: the reminders are filtered again and
\* converted by convert_to_asana_format.  With verbose set line 463 is
\* printed before the conversion and, unless the run is dry, line 482 and
\* then line 488 after the write.
BulkAsanaOutcome(filtered_reminders, default_assignee, dry_run, verbose, a, files, output_path) ==
    [AsanaOutcome(convert_to_asana_format(filtered_reminders, default_assignee,
                                          a.asana_language, a),
                  filtered_reminders, files, output_path, dry_run, a.asana_language,
                  IF ~dry_run /\ verbose THEN <<482, 488>> ELSE <<>>)
        EXCEPT !.stdout = (IF verbose THEN <<463>> ELSE <<>>) \o @]

\* a bulk branch that has opened the output file before the records are
\* converted: a failed conversion leaves the header behind
BulkOutcomeOpeningFirst(bulk, reminders, output_path, default_assignee, include_completed, dry_run, verbose, a, files) ==
    [(IF bulk.exc # ""
      THEN Caught(bulk.exc,
                  write_csv_file(files, output_path, <<>>, dry_run, FALSE, "en").files)
      ELSE IF bulk.value = <<>>
      THEN [FileOutcome(TRUE, files, <<>>, <<>>)
               EXCEPT !.stdout = IF verbose THEN <<457>> ELSE <<>>]
      ELSE IF ~a.defined THEN Caught("NameError", files)
      ELSE IF a.has_asana_format /\ a.asana_format
      THEN BulkAsanaOutcome(
               RemindersAt(reminders, FilteredReminders(reminders, 1, include_completed)),
               default_assignee, dry_run, verbose, a, files, output_path)
      ELSE WriteOutcome(files, output_path, bulk.value, RemindersAt(reminders, bulk.kept),
                        dry_run, FALSE, "en",
                        IF ~dry_run /\ verbose THEN <<488>> ELSE <<>>))
        EXCEPT !.stdout = bulk.stdout \o @]

\* the bulk branch, after process_bulk_json returned or raised (having
\* printed bulk.stdout).  With verbose set an empty list of rows prints
\* line 457, and a write in the original format that returned, unless the
\* run is dry, line 488.
BulkOutcome(bulk, reminders, output_path, default_assignee, include_completed, dry_run, verbose, a, files) ==
    [(IF bulk.exc # "" THEN Caught(bulk.exc, files)
      ELSE IF bulk.value = <<>>
      THEN [FileOutcome(TRUE, files, <<>>, <<>>)
               EXCEPT !.stdout = IF verbose THEN <<457>> ELSE <<>>]
      ELSE IF ~a.defined THEN Caught("NameError", files)
      ELSE IF a.has_asana_format /\ a.asana_format
      THEN BulkAsanaOutcome(
               RemindersAt(reminders, FilteredReminders(reminders, 1, include_completed)),
               default_assignee, dry_run, verbose, a, files, output_path)
      ELSE WriteOutcome(files, output_path, bulk.value, RemindersAt(reminders, bulk.kept),
                        dry_run, FALSE, "en",
                        IF ~dry_run /\ verbose THEN <<488>> ELSE <<>>))
        EXCEPT !.stdout = bulk.stdout \o @]

\* the legacy branch of a single record, after convert_json_to_asana_row
\* returned (having printed row.stdout) or raised
RowOutcome(row, json_data, files, output_path, dry_run, done) ==
    IF row.exc # "" THEN Caught(row.exc, files)
    ELSE [WriteOutcome(files, output_path, <<row.value>>, <<json_data>>, dry_run, FALSE,
                       "en", done)
             EXCEPT !.stdout = row.stdout \o @]

\* the single branch.  With verbose set a skipped record prints line 506,
\* the asana branch line 512 before the conversion and, unless the run is
\* dry, line 518 after the write; both branches end with line 525 unless
\* the run is dry.
SingleOutcome(json_data, output_path, default_assignee, include_completed, dry_run, verbose, a, files) ==
    IF ~include_completed /\ IsCompleted(json_data)
    THEN [FileOutcome(TRUE, files, <<>>, <<>>)
             EXCEPT !.stdout = IF verbose THEN <<506>> ELSE <<>>]
    ELSE IF ~a.defined THEN Caught("NameError", files)
    ELSE IF a.has_asana_format /\ a.asana_format
    THEN [AsanaOutcome(convert_to_asana_format(<<json_data>>, default_assignee,
                                               a.asana_language, a),
                       <<json_data>>, files, output_path, dry_run, a.asana_language,
                       IF ~dry_run /\ verbose THEN <<518, 525>> ELSE <<>>)
             EXCEPT !.stdout = (IF verbose THEN <<512>> ELSE <<>>) \o @]
    ELSE RowOutcome(convert_json_to_asana_row(json_data, default_assignee, a),
                    json_data, files, output_path, dry_run,
                    IF ~dry_run /\ verbose THEN <<525>> ELSE <<>>)

\* the branch taken for the format detected.  With verbose set the bulk
\* branch first prints line 451 (the value of 'reminders' is a list here,
\* so its len() does not raise); an unknown format prints line 528.
FormatOutcome(format_type, json_data, output_path, default_assignee, include_completed, dry_run, verbose, a, files) ==
    IF format_type = "bulk"
    THEN [BulkOutcome(process_bulk_json(json_data, default_assignee, include_completed,
                                        verbose, a),
                      json_data["reminders"].items, output_path, default_assignee,
                      include_completed, dry_run, verbose, a, files)
             EXCEPT !.stdout = (IF verbose THEN <<451>> ELSE <<>>) \o @]
    ELSE IF format_type = "single"
    THEN SingleOutcome(json_data, output_path, default_assignee, include_completed,
                       dry_run, verbose, a, files)
    ELSE [FileOutcome(FALSE, files, <<>>, <<>>) EXCEPT !.stdout = <<528>>]

\* with verbose set line 440 is printed before the file is opened
process_single_file(file, output_path, default_assignee, include_completed, dry_run, verbose, a, files) ==
    [(IF file.kind = "invalid" THEN Caught("JSONDecodeError", files)
      ELSE IF file.kind = "missing" THEN Caught("FileNotFoundError", files)
      ELSE FormatOutcome(detect_json_format(file.doc), file.doc, output_path,
                         default_assignee, include_completed, dry_run, verbose, a, files))
        EXCEPT !.stdout = (IF verbose THEN <<440>> ELSE <<>>) \o @]

(***************************************************************************)
(* process_directory                                                       *)
(***************************************************************************)
\* json_path.stem + '_asana.csv' for the i-th JSON file (a.json, b.json, c.json)
CsvName(i) == CASE i = 1 -> "a_asana.csv" [] i = 2 -> "b_asana.csv" [] OTHER -> "c_asana.csv"

\* output_path or 'asana_import.csv' (an absent output option is "")
OutputFile(output_path) == IF output_path = "" THEN "asana_import.csv" ELSE output_path

\* The state of the loop of process_directory.  rows and sources collect
\* every row handed to write_csv_file, or kept for the combined file, with
\* the document it was built from; stdout is the lines printed so far.
DirState(success_count, error_count, skipped_count, all_rows, files, rows, sources, stdout) ==
    [success_count |-> success_count, error_count |-> error_count,
     skipped_count |-> skipped_count, all_rows |-> all_rows, files |-> files,
     rows |-> rows, sources |-> sources, writes |-> 0, stdout |-> stdout]

\* The loop body prints the name of the file first (line 562).  A file that
\* failed prints line 590 (`except json.JSONDecodeError`) or line 593
\* (`except Exception`); a file that was skipped prints line 570, whatever
\* verbose is.
DirError(st, line) == [st EXCEPT !.error_count = @ + 1, !.stdout = @ \o <<562, line>>]
DirSkipped(st) == [st EXCEPT !.skipped_count = @ + 1, !.stdout = @ \o <<562, 570>>]

\* separate mode, after convert_json_to_asana_row printed row.stdout and
\* write_csv_file returned or raised (caught by the loop's `except
\* Exception`: the file counts as an error).  A dry run prints line 266
\* inside write_csv_file; done is what the loop prints after a write that
\* returned.
DirWritten(w, row, json_data, st, done) ==
    [st EXCEPT !.files = w.files,
               !.writes = @ + w.calls,
               !.rows = Append(@, row.value),
               !.sources = Append(@, json_data),
               !.success_count = IF w.exc = "" THEN @ + 1 ELSE @,
               !.error_count = IF w.exc = "" THEN @ ELSE @ + 1,
               !.stdout = @ \o <<562>> \o row.stdout
                            \o (IF w.exc = ""
                                THEN [n \in 1..Len(w.printed) |-> 266] \o done
                                ELSE <<593>>)]

\* combined mode: the row is kept for the combined file
DirCollected(row, json_data, st) ==
    [st EXCEPT !.all_rows = Append(@, row.value),
               !.rows = Append(@, row.value),
               !.sources = Append(@, json_data),
               !.success_count = @ + 1,
               !.stdout = @ \o <<562>> \o row.stdout]

\* the loop body after convert_json_to_asana_row returned or raised; the
\* only use of verbose in process_directory is line 582, printed after the
\* write of a separate file unless the run is dry
DirRow(row, json_data, i, st, opts) ==
    IF row.exc # "" THEN DirError(st, 593)
    ELSE IF opts.separate
    THEN DirWritten(write_csv_file(st.files, CsvName(i), <<row.value>>, opts.dry_run,
                                   FALSE, "en"),
                    row, json_data, st,
                    IF opts.verbose /\ ~opts.dry_run THEN <<582>> ELSE <<>>)
    ELSE DirCollected(row, json_data, st)

\* the loop body for the i-th file
DirFile(file, i, st, opts) ==
    IF file.kind # "json" THEN DirError(st, IF file.kind = "invalid" THEN 590 ELSE 593)
    ELSE IF ~opts.include_completed /\ Get(file.doc, "Is Completed", FALSE)
    THEN DirSkipped(st)
    ELSE DirRow(convert_json_to_asana_row(file.doc, opts.default_assignee, opts.args),
                file.doc, i, st, opts)

\* a loop that ends at the first file that fails
RECURSIVE DirLoopStopping(_, _, _, _)
DirLoopStopping(json_files, i, st, opts) ==
    IF i > Len(json_files) THEN st
    ELSE LET next == DirFile(json_files[i], i, st, opts)
         IN  IF next.error_count > st.error_count THEN next
             ELSE DirLoopStopping(json_files, i + 1, next, opts)

\* the loop over json_files from index i
RECURSIVE DirLoop(_, _, _, _)
DirLoop(json_files, i, st, opts) ==
    IF i > Len(json_files) THEN st
    ELSE DirLoop(json_files, i + 1, DirFile(json_files[i], i, st, opts), opts)

\* a combined write that does not look at all_rows
CombinedWriteAlways(st, output_path, separate, dry_run) ==
    IF ~separate
    THEN write_csv_file(st.files, OutputFile(output_path), st.all_rows, dry_run,
                        FALSE, "en")
    ELSE [exc |-> "", files |-> st.files, printed |-> <<>>, calls |-> 0]

\* the combined file, written after the loop outside any try
CombinedWrite(st, output_path, separate, dry_run) ==
    IF ~separate /\ st.all_rows # <<>>
    THEN write_csv_file(st.files, OutputFile(output_path), st.all_rows, dry_run,
                        FALSE, "en")
    ELSE [exc |-> "", files |-> st.files, printed |-> <<>>, calls |-> 0]

\* exc is the exception that leaves process_directory, "" when it returns
\* its three counts.  A combined write prints line 266 when the run is dry
\* and the note of lines 601 to 606 when it is not and the write returned.
DirResult(st, w, dry_run) ==
    [exc |-> w.exc, success_count |-> st.success_count,
     error_count |-> st.error_count, skipped_count |-> st.skipped_count,
     files |-> w.files, rows |-> st.rows, sources |-> st.sources,
     writes |-> st.writes + w.calls,
     stdout |-> st.stdout \o [n \in 1..Len(w.printed) |-> 266]
                  \o (IF w.calls = 1 /\ w.exc = "" /\ ~dry_run
                      THEN <<601, 602, 603, 604, 605, 606>> ELSE <<>>)]

DirEnd(st, output_path, separate, dry_run) ==
    DirResult(st, CombinedWrite(st, output_path, separate, dry_run), dry_run)

\* a directory without JSON files prints line 551 and returns three zeros;
\* otherwise line 554 is printed before the loop
process_directory(json_files, output_path, separate, default_assignee, include_completed, dry_run, verbose, a, files) ==
    DirEnd(DirLoop(json_files, 1,
                   DirState(0, 0, 0, <<>>, files, <<>>, <<>>,
                            IF json_files = <<>> THEN <<551>> ELSE <<554>>),
                   [separate |-> separate, default_assignee |-> default_assignee,
                    include_completed |-> include_completed, dry_run |-> dry_run,
                    verbose |-> verbose, args |-> a]),
           output_path, separate, dry_run)

(***************************************************************************)
(* The module-level global `args`.                                         *)
(***************************************************************************)
\* before main or a test has assigned it, the name is not defined
ArgsUndefined ==
    [defined |-> FALSE, verbose |-> FALSE, has_asana_format |-> FALSE,
     asana_format |-> FALSE, asana_language |-> "en"]

\* the namespace parse_arguments returns
ParsedArgs(verbose, asana_format, asana_language) ==
    [defined |-> TRUE, verbose |-> verbose, has_asana_format |-> TRUE,
     asana_format |-> asana_format, asana_language |-> asana_language]

\* the object a test assigns: it has the attribute verbose and no other
MockArgs(verbose) ==
    [defined |-> TRUE, verbose |-> verbose, has_asana_format |-> FALSE,
     asana_format |-> FALSE, asana_language |-> "en"]

Languages == {"en", "de"}

ArgsValues ==
    {ParsedArgs(v, f, l) : v \in BOOLEAN, f \in BOOLEAN, l \in Languages}
        \cup {MockArgs(v) : v \in BOOLEAN}

(***************************************************************************)
(* Output files.                                                           *)
(***************************************************************************)
OutputPaths == {"out.csv", "asana_import.csv", "a_asana.csv", "b_asana.csv", "c_asana.csv"}

(***************************************************************************)
(* Inputs.                                                                 *)
(***************************************************************************)
\* source priorities: the vocabulary of priority_map and strings outside it
PriorityInputs ==
    DOMAIN priority_map \cup
    {"Unknown", "low", "LOW", "medium", "HIGH", "hoch", "Urgent", "Dringend",
     "Keine", "Normal", "0", "1", "5", "9", " Low", "Hoch ", "ohne", "none",
     "null", "Wichtig"}

\* documents for format detection: every subset of these keys, with a list
\* or a value of another type (null, '', 'd', {}, {'k': ...}) under 'reminders'
DetectKeys == {"reminders", "Title", "title", "Notes", "notes", "unknown"}

DetectDocs ==
    {[k \in K |-> IF k = "reminders" THEN rv ELSE JsonOther("text", 1)] :
        K \in SUBSET DetectKeys,
        rv \in {JsonList(<<>>), JsonList(<<JsonOther("scalar", 0)>>),
                JsonList(<<JsonOther("text", 1)>>),
                JsonOther("scalar", 0), JsonOther("text", 0), JsonOther("text", 1),
                JsonOther("object", 0), JsonOther("object", 1)}}

TitleChars == {"a", "B", "#", " ", "-"}
Titles == SeqsUpTo(TitleChars, MaxTitleLen)

TagPool == {<<"a">>, <<"A">>, <<"b">>, <<"a", "b">>, <<"A", "B">>}
TagLists == SeqsUpTo(TagPool, MaxTags)

\* the characters of a TLA+ string literal of decimal digits and punctuation
DateParts == {<<"2", "0", "2", "5", "-", "0", "3", "-", "1", "5">>,
              <<"2", "0", "2", "5", "-", "1", "2", "-", "3", "1">>,
              <<"2", "0", "2", "4", "-", "0", "2", "-", "2", "9">>,
              <<"2", "0", "2", "5", "-", "0", "2", "-", "2", "9">>,
              <<"2", "0", "2", "5", "-", "0", "2", "-", "0", "8">>,
              <<"2", "0", "2", "5", "-", "1", "3", "-", "0", "1">>,
              <<"2", "0", "2", "5", "-", "0", "4", "-", "3", "1">>,
              <<"2", "0", "2", "5", "-", "0", "0", "-", "1", "0">>,
              <<"2", "0", "2", "5", "/", "0", "3", "/", "1", "5">>,
              <<"1", "9", "9", "9", "-", "0", "1", "-", "0", "1">>,
              <<"0", "9", "9", "9", "-", "0", "1", "-", "0", "1">>,
              <<"2", "0", "2", "5", "0", "3", "1", "5">>,
              <<"2", "0", "2", "5", "-", "W", "1", "1", "-", "6">>,
              <<"2", "0", "2", "5", "W", "1", "1">>,
              <<"2", "0", "2", "0", "-", "W", "5", "3", "-", "7">>}

TimeParts == {<<>>,
              <<"T", "0", "9", ":", "0", "0", ":", "0", "0", "Z">>,
              <<"T", "2", "3", ":", "5", "9", ":", "5", "9", "+", "0", "0", ":", "0", "0">>,
              <<"T", "0", "0", ":", "3", "0", ":", "0", "0", "-", "0", "5", ":", "0", "0">>,
              <<"T", "1", "8", ":", "0", "0", ":", "0", "0", "+", "0", "5", ":", "3", "0">>,
              <<"T", "0", "9", ":", "0", "0", ":", "0", "0">>,
              <<"T", "0", "9", ":", "0", "0">>,
              <<"T", "2", "5", ":", "0", "0", ":", "0", "0", "Z">>,
              <<"T", "0", "9", ":", "6", "0", ":", "0", "0", "Z">>,
              <<"T", "0", "9", ":", "0", "0", ":", "0", "0", "+", "2", "4", ":", "0", "0">>,
              <<"T">>,
              <<"Z">>,
              <<"T", "0", "9", ":", "0", "0", ":", "0", "0", ".", "0", "0", "0", "Z">>,
              <<"T", "0", "9", ":", "0", "0", ":", "0", "0", ".", "5">>,
              <<"T", "0", "9">>,
              <<"T", "0", "9", "0", "0">>,
              <<"T", "0", "9", ":", "0", "0", ":", "0", "0", "+", "0", "5">>,
              <<"T", "0", "9", ":", "0", "0", ":", "0", "0", "-", "0", "0", ":", "6", "0">>}

JunkDates == {<<"n", "o", "t", "-", "a", "-", "d", "a", "t", "e">>,
              <<"i", "n", "v", "a", "l", "i", "d", "-", "d", "a", "t", "e">>,
              <<"0", "3", "/", "1", "5", "/", "2", "0", "2", "5">>,
              <<" ">>,
              <<"Z">>}

DateInputs ==
    {d \o t : d \in DateParts, t \in TimeParts} \cup JunkDates \cup {<<>>, NoneVal}

ValidDue ==
    <<"2", "0", "2", "5", "-", "0", "3", "-", "1", "5",
      "T", "0", "9", ":", "0", "0", ":", "0", "0", "Z">>

\* an old-format record, not completed
OldOpen ==
    ("Title" :> <<"a">>) @@ ("Notes" :> <<"n">>) @@ ("List" :> <<"b", ":">>) @@
    ("Due Date" :> ValidDue) @@ ("Priority" :> "High") @@ ("Is Completed" :> FALSE)

\* an old-format record, completed
OldDone ==
    ("Title" :> <<"t">>) @@ ("Notes" :> <<>>) @@ ("List" :> <<"b">>) @@
    ("Due Date" :> <<>>) @@ ("Priority" :> "None") @@ ("Is Completed" :> TRUE)

\* a new-format record with the title, notes, list and due date of OldOpen
NewOpen ==
    ("title" :> <<"a">>) @@ ("notes" :> <<"n">>) @@ ("list" :> <<"b", ":">>) @@
    ("due_date" :> ValidDue) @@ ("prio" :> "Hoch") @@ ("done" :> "Nein") @@
    ("tags" :> <<>>)

\* a new-format record, completed
NewDone ==
    ("title" :> <<"b">>) @@ ("notes" :> <<>>) @@ ("list" :> <<"b">>) @@
    ("due_date" :> <<>>) @@ ("prio" :> "Mittel") @@ ("done" :> "Ja") @@
    ("tags" :> <<>>)

\* a new-format record whose title is made only of a tag
NewTagOnly ==
    ("title" :> <<"#", "a">>) @@ ("prio" :> "Ohne") @@ ("done" :> "Nein") @@
    ("tags" :> << <<"A">>, <<"b">> >>)

\* a new-format record with a due date that is no ISO timestamp
NewBadDate ==
    ("title" :> <<"t">>) @@ ("due_date" :> <<"n", "o", "t", "-", "a", "-", "d", "a", "t", "e">>) @@
    ("done" :> "Nein")

\* a new-format record with metadata and subtasks
NewRich ==
    ("title" :> <<"B", " ", "#", "t">>) @@ ("notes" :> <<"n">>) @@ ("list" :> <<" ", "a", " ", ":">>) @@
    ("prio" :> "Gering") @@ ("done" :> "Nein") @@ ("tags" :> << <<"T">> >>) @@
    ("flagged" :> "Ja") @@ ("url" :> <<"u">>) @@
    ("subtasks" :> << ("title" :> <<"a">>) @@ ("notes" :> <<"n">>),
                      ("title" :> <<"b">>) >>)

\* a new-format record with a reminder at a location, no notes and one subtask
NewReminder ==
    ("title" :> <<"a">>) @@ ("done" :> "Nein") @@ ("flagged" :> "Nein") @@
    ("has_reminder" :> "Ja") @@ ("reminder_location" :> <<"b">>) @@ ("url" :> <<>>) @@
    ("subtasks" :> << ("notes" :> <<"n">>) >>)

\* a new-format record with every kind of metadata
NewAllMetadata ==
    ("title" :> <<"t">>) @@ ("notes" :> <<"n">>) @@ ("done" :> "Ja") @@
    ("flagged" :> "Ja") @@ ("has_reminder" :> "Ja") @@ ("reminder_location" :> <<"a">>) @@
    ("url" :> <<"u">>) @@ ("subtasks" :> << ("title" :> <<"b">>) >>)

\* the record without any key
EmptyRecord == <<>>

ReminderPool ==
    {OldOpen, OldDone, NewOpen, NewDone, NewTagOnly, NewBadDate, NewRich, EmptyRecord}

\* a document that is neither a bulk collection nor a record
UnknownDoc == ("unknown" :> <<"d">>)

\* the records handed to the row builders
RowRecords == ReminderPool \cup {NewReminder, NewAllMetadata}

\* a record of each schema with every key the row builders read
FullLegacy == OldOpen
FullNew == [NewOpen EXCEPT !["tags"] = << <<"T">> >>]

\* d with only the keys of K
Restrict(d, K) == [k \in K |-> d[k]]

\* the records with any subset of their keys absent, the empty record included
PartialRecords ==
    {Restrict(FullLegacy, K) : K \in SUBSET (DOMAIN FullLegacy)}
        \cup {Restrict(FullNew, K) : K \in SUBSET (DOMAIN FullNew)}

\* a record with absent keys alone, before a legacy record and after a
\* record of the new schema
PartialLists ==
    UNION {{<<r>>, <<r, OldOpen>>, <<NewRich, r>>} : r \in PartialRecords}

BulkDocs == {("reminders" :> JsonList(rs)) : rs \in SeqsUpTo(ReminderPool, MaxReminders)}
SingleDocs == ReminderPool \ {EmptyRecord}

InputFiles ==
    {JsonFile(d) : d \in BulkDocs \cup SingleDocs \cup {UnknownDoc}}
        \cup {InvalidJsonFile, MissingFile}

\* the files a directory may hold
DirectoryFiles ==
    {JsonFile(d) : d \in {OldOpen, OldDone, NewOpen, NewDone, NewBadDate, UnknownDoc}}
        \cup {InvalidJsonFile}
Directories == SeqsUpTo(DirectoryFiles, MaxFiles)

\* rows for a direct call of write_csv_file: keyed by the legacy columns, by
\* the Asana columns of each language, by the columns of the test
\* test_write_csv_file_actual, and by two columns only
RowKeyedBy(keys, name, priority) ==
    [k \in keys |-> IF k = "Name" THEN name
                    ELSE IF k \in {"Priority", "Priorit<U+221A><U+00A7>t"} THEN priority
                    ELSE <<>>]

CurrentColumns ==
    {"Name", "Notes", "Section/Column", "Assignee Email", "Due Date", "Tags",
     "Parent task", "Priority"}

WriteRowPool ==
    {RowKeyedBy(CurrentColumns, <<"a">>, "High"),
     RowKeyedBy(CurrentColumns, <<"b">>, "Low"),
     RowKeyedBy(Range(LegacyFieldnames), <<"a">>, "High"),
     RowKeyedBy(Range(get_asana_fieldnames("en")), <<"b">>, "Medium"),
     RowKeyedBy(Range(get_asana_fieldnames("de")), <<"t">>, "Hoch"),
     RowKeyedBy({"Name", "Description"}, <<"t">>, "")}

WriteRowLists == SeqsUpTo(WriteRowPool, MaxReminders)

Assignees == {NoneVal, <<"a", ".", "b", "@", "t">>}

\* default assignees for the row builder: None, every short string over two
\* letters, '.' and '@', and longer addresses with a dot in the domain
AssigneeChars == {"a", "B", ".", "@"}
AssigneeInputs ==
    Assignees \cup SeqsUpTo(AssigneeChars, MaxAssigneeLen)
        \cup {<<"a", "B", ".", "B", "a", "@", "t", ".", "a">>,
              <<"B", "a", "t", "@", "a", ".", "b">>}

(***************************************************************************)
(* The state machine: the state after import, and one action per call.     *)
(***************************************************************************)
\* list names: every string over a letter, a space and a colon, and None
SectionChars == {"a", " ", ":"}
SectionInputs == SeqsUpTo(SectionChars, MaxTitleLen) \cup {NoneVal}

Idle == [op |-> "idle"]

Init ==
    /\ args = ArgsUndefined
    /\ fs = [p \in OutputPaths |-> NoFile]
    /\ call = Idle

\* the output paths on which open(..., 'w') fails in InitIO: the output of
\* a file run, the default combined output and the first separate output
UnwritablePaths == {"out.csv", "asana_import.csv", "a_asana.csv"}

\* the start with every output path writable, or with UnwritablePaths
InitIO ==
    /\ args = ArgsUndefined
    /\ \E U \in {{}, UnwritablePaths} :
         fs = [p \in OutputPaths |-> IF p \in U THEN UnwritableFile ELSE NoFile]
    /\ call = Idle

\* an output file left by an earlier run
OldFile ==
    [exists |-> TRUE, fieldnames |-> LegacyFieldnames,
     rows |-> << CsvLine(("Name" :> <<"o", "l", "d">>), LegacyFieldnames) >>,
     encoding |-> "utf-8", writable |-> TRUE]

\* the start with no output file, or with the output of a file run left by
\* an earlier run
InitExisting ==
    /\ args = ArgsUndefined
    /\ \E E \in {{}, {"out.csv", "asana_import.csv"}} :
         fs = [p \in OutputPaths |-> IF p \in E THEN OldFile ELSE NoFile]
    /\ call = Idle

\* main's `global args; args = parse_arguments()`, or a test's
\* `asana_convert.args = MockArgs()`
SetArgs ==
    /\ call = Idle
    /\ args = ArgsUndefined
    /\ args' \in ArgsValues
    /\ UNCHANGED <<fs, call>>

CallMapPriority ==
    /\ call = Idle
    /\ \E p \in PriorityInputs, l \in Languages :
         call' = [op |-> "map_priority", apple_priority |-> p, language |-> l,
                  result |-> map_priority(p, l), remapped |-> FALSE, source |-> p]
    /\ UNCHANGED <<args, fs>>

\* the value map_priority returned is mapped again in the same language
CallMapPriorityAgain ==
    /\ call.op = "map_priority" /\ ~call.remapped
    /\ call' = [call EXCEPT !.apple_priority = call.result,
                            !.result = map_priority(call.result, call.language),
                            !.remapped = TRUE]
    /\ UNCHANGED <<args, fs>>

CallDetectJsonFormat ==
    /\ call = Idle
    /\ \E d \in DetectDocs :
         call' = [op |-> "detect_json_format", json_data |-> d,
                  result |-> detect_json_format(d)]
    /\ UNCHANGED <<args, fs>>

CallExtractTags ==
    /\ call = Idle
    /\ \E t \in Titles :
         call' = [op |-> "extract_tags_from_title", title |-> t,
                  result |-> extract_tags_from_title(t)]
    /\ UNCHANGED <<args, fs>>

CallCombineTags ==
    /\ call = Idle
    /\ \E h \in TagLists, n \in TagLists :
         call' = [op |-> "combine_tags", hashtags |-> h, native_tags |-> n,
                  result |-> combine_tags(h, n), remerge |-> "", first |-> <<>>]
    /\ UNCHANGED <<args, fs>>

\* the list combine_tags returned is merged again: with itself, or with an
\* empty list on either side
CallCombineTagsAgain ==
    /\ call.op = "combine_tags" /\ call.remerge = ""
    /\ \E how \in {"self", "empty_native", "empty_hashtags"} :
         LET h == IF how = "empty_hashtags" THEN <<>> ELSE call.result
             n == IF how = "empty_native" THEN <<>> ELSE call.result
         IN  call' = [call EXCEPT !.hashtags = h, !.native_tags = n,
                                  !.result = combine_tags(h, n),
                                  !.remerge = how, !.first = call.result]
    /\ UNCHANGED <<args, fs>>

CallFormatDate ==
    /\ call = Idle
    /\ \E d \in DateInputs :
         call' = [op |-> "format_date", date_string |-> d,
                  result |-> format_date(d, args)]
    /\ UNCHANGED <<args, fs>>

CallFormatSection ==
    /\ call = Idle
    /\ \E l \in SectionInputs :
         call' = [op |-> "format_section", list_name |-> l,
                  result |-> format_section(l)]
    /\ UNCHANGED <<args, fs>>

CallConvertJsonToAsanaRow ==
    /\ call = Idle
    /\ \E r \in RowRecords \cup PartialRecords :
         \E as \in IF r \in RowRecords THEN AssigneeInputs ELSE Assignees :
             call' = [op |-> "convert_json_to_asana_row", json_data |-> r,
                      default_assignee |-> as,
                      result |-> convert_json_to_asana_row(r, as, args)]
    /\ UNCHANGED <<args, fs>>

CallConvertToAsanaFormat ==
    /\ call = Idle
    /\ \E rs \in SeqsUpTo(RowRecords, MaxReminders) \cup PartialLists,
          as \in Assignees, l \in Languages :
         call' = [op |-> "convert_to_asana_format", reminders |-> rs,
                  default_assignee |-> as, language |-> l,
                  result |-> convert_to_asana_format(rs, as, l, args)]
    /\ UNCHANGED <<args, fs>>

CallProcessBulkJson ==
    /\ call = Idle
    /\ \E d \in BulkDocs, as \in Assignees, ic \in BOOLEAN, v \in BOOLEAN :
         call' = [op |-> "process_bulk_json", json_data |-> d,
                  default_assignee |-> as, include_completed |-> ic, verbose |-> v,
                  result |-> process_bulk_json(d, as, ic, v, args)]
    /\ UNCHANGED <<args, fs>>

\* a direct call of write_csv_file, as the tests make it; asana_format FALSE
\* and language "en" are the defaults of the two options
CallWriteCsvFile ==
    /\ call = Idle
    /\ \E rows \in WriteRowLists, dry \in BOOLEAN, af \in BOOLEAN, l \in Languages :
         \E w \in {write_csv_file(fs, "out.csv", rows, dry, af, l)} :
             /\ call' = [op |-> "write_csv_file", filepath |-> "out.csv", rows |-> rows,
                         dry_run |-> dry, asana_format |-> af, language |-> l,
                         result |-> [exc |-> w.exc, printed |-> w.printed]]
             /\ fs' = w.files
    /\ UNCHANGED args

\* a direct call of process_single_file, as the tests make it with and
\* without verbose=True, whatever the global args holds
CallProcessSingleFile ==
    /\ call = Idle
    /\ \E f \in InputFiles, as \in Assignees, ic \in BOOLEAN, dry \in BOOLEAN,
          v \in BOOLEAN :
         \E r \in {process_single_file(f, "out.csv", as, ic, dry, v, args, fs)} :
             /\ call' = [op |-> "process_single_file", file |-> f,
                         output_path |-> "out.csv", default_assignee |-> as,
                         include_completed |-> ic, dry_run |-> dry, verbose |-> v,
                         result |-> r]
             /\ fs' = r.files
    /\ UNCHANGED args

\* a direct call of process_directory, with verbose left at the default of
\* the signature: main is the one caller that passes it
CallProcessDirectory ==
    /\ call = Idle
    /\ \E fl \in Directories, out \in {"", "out.csv"}, sep \in BOOLEAN,
          as \in Assignees, ic \in BOOLEAN, dry \in BOOLEAN :
         \E r \in {process_directory(fl, out, sep, as, ic, dry, FALSE, args, fs)} :
             /\ call' = [op |-> "process_directory", json_files |-> fl,
                         output_path |-> out, separate |-> sep,
                         default_assignee |-> as, include_completed |-> ic,
                         dry_run |-> dry, verbose |-> FALSE, result |-> r]
             /\ fs' = r.files
    /\ UNCHANGED args

\* main on a file, which passes args.verbose to process_single_file:
\* sys.exit(1) when process_single_file returned False; an exception
\* leaving it would end the process with a traceback (status 1)
MainFile ==
    /\ call = Idle /\ args = ArgsUndefined
    /\ \E f \in InputFiles, out \in {"", "out.csv"}, as \in Assignees,
          ic \in BOOLEAN, dry \in BOOLEAN, parsed \in ArgsValues :
         /\ parsed.has_asana_format
         /\ \E r \in {process_single_file(f, OutputFile(out), as, ic, dry,
                                           parsed.verbose, parsed, fs)} :
                /\ args' = parsed
                /\ call' = [op |-> "main", mode |-> "file", file |-> f,
                            output |-> out, default_assignee |-> as,
                            include_completed |-> ic, dry_run |-> dry,
                            verbose |-> parsed.verbose, result |-> r,
                            exit_status |-> IF r.exc = "" /\ r.success THEN 0 ELSE 1]
                /\ fs' = r.files

\* main on a directory, which passes args.verbose to process_directory: an
\* exception leaving process_directory ends the
\* process with a traceback (status 1) before the summary is printed;
\* otherwise main prints the three counts (tally) and the status is 1
\* exactly when no file succeeded
MainDirectory ==
    /\ call = Idle /\ args = ArgsUndefined
    /\ \E fl \in Directories, out \in {"", "out.csv"}, sep \in BOOLEAN, as \in Assignees,
          ic \in BOOLEAN, dry \in BOOLEAN, parsed \in ArgsValues :
         /\ parsed.has_asana_format
         /\ \E r \in {process_directory(fl, out, sep, as, ic, dry, parsed.verbose,
                                         parsed, fs)} :
                /\ args' = parsed
                /\ call' = [op |-> "main", mode |-> "directory", json_files |-> fl,
                            output |-> out, separate |-> sep,
                            default_assignee |-> as,
                            include_completed |-> ic, dry_run |-> dry,
                            verbose |-> parsed.verbose, result |-> r,
                            tally |-> IF r.exc # "" THEN <<>>
                                      ELSE <<r.success_count, r.error_count,
                                             r.skipped_count>>,
                            exit_status |-> IF r.exc # "" \/ r.success_count = 0
                                            THEN 1 ELSE 0]
                /\ fs' = r.files

NextRows == SetArgs \/ CallConvertJsonToAsanaRow \/ CallConvertToAsanaFormat
SpecRows == Init /\ [][NextRows]_vars

NextBulk == SetArgs \/ CallProcessBulkJson
SpecBulk == Init /\ [][NextBulk]_vars

NextWrite == CallWriteCsvFile
SpecWrite == Init /\ [][NextWrite]_vars

NextFile == SetArgs \/ CallProcessSingleFile \/ MainFile
SpecFile == Init /\ [][NextFile]_vars

NextDirectory == SetArgs \/ CallProcessDirectory \/ MainDirectory
SpecDirectory == Init /\ [][NextDirectory]_vars

\* the runs over a file and over a directory with unwritable output paths
SpecFileIO == InitIO /\ [][NextFile]_vars
SpecDirectoryIO == InitIO /\ [][NextDirectory]_vars

\* the runs in which verbose is an input: main over a file and over a
\* directory, where every function gets args.verbose, and the direct calls
\* of process_bulk_json
NextVerbose == SetArgs \/ CallProcessBulkJson \/ MainFile \/ MainDirectory
SpecVerbose == Init /\ [][NextVerbose]_vars

\* process_single_file called with an output file that exists already
NextFileCall == SetArgs \/ CallProcessSingleFile
SpecFileExisting == InitExisting /\ [][NextFileCall]_vars

NextRun == NextBulk \/ NextWrite \/ NextFile \/ NextDirectory
SpecRun == Init /\ [][NextRun]_vars

NextPriority == CallMapPriority \/ CallMapPriorityAgain
SpecPriority == Init /\ [][NextPriority]_vars

NextDetect == CallDetectJsonFormat
SpecDetect == Init /\ [][NextDetect]_vars

NextTags == CallExtractTags \/ CallCombineTags \/ CallCombineTagsAgain
SpecTags == Init /\ [][NextTags]_vars

NextDate == SetArgs \/ CallFormatDate
SpecDate == Init /\ [][NextDate]_vars

NextSection == CallFormatSection
SpecSection == Init /\ [][NextSection]_vars

Next ==
    NextPriority \/ NextDetect \/ NextTags \/ NextDate \/ NextSection \/ NextRows \/ NextRun
Spec == Init /\ [][Next]_vars

(***************************************************************************)
(* Priority mapping (C1, C2).                                              *)
(***************************************************************************)
NoneMarkers == {"Ohne", "None", ""}
LowSources == {"Gering", "Niedrig", "Low"}
MediumSources == {"Mittel", "Medium"}
HighSources == {"Hoch", "High"}
RecognizedLevels == LowSources \cup MediumSources \cup HighSources

\* C1: for both languages, a none marker ('Ohne', 'None', '', a missing
\* priority, which the row builders read as '') and every unrecognized
\* string map to the empty string, never to a level.
C1_DefaultsToEmpty ==
    (call.op = "map_priority" /\ ~call.remapped
        /\ (call.source \in NoneMarkers \/ call.source \notin RecognizedLevels))
    => call.result = ""

\* the level the claim gives a recognized source priority, in the target language
ExpectedLevel(p, l) ==
    CASE p \in LowSources -> IF l = "de" THEN "Niedrig" ELSE "Low"
      [] p \in MediumSources -> IF l = "de" THEN "Mittel" ELSE "Medium"
      [] p \in HighSources -> IF l = "de" THEN "Hoch" ELSE "High"

\* C2: every recognized source priority maps to its level (Low, Medium,
\* High; Niedrig, Mittel, Hoch with language 'de'), and mapping the mapped
\* value again in the same language returns it unchanged.
C2_RecognizedLevels ==
    (call.op = "map_priority" /\ call.source \in RecognizedLevels)
    => /\ call.result = ExpectedLevel(call.source, call.language)
       /\ call.remapped => call.result = call.apple_priority

C2_Witness ==
    /\ call.op = "map_priority" /\ call.remapped
    /\ call.source = "Gering" /\ call.language = "de"
    /\ call.result = "Niedrig"

(***************************************************************************)
(* Format detection (C3).                                                  *)
(***************************************************************************)
\* C3: a document is 'bulk' exactly when it has a 'reminders' key holding a
\* list (a title key may be present too), otherwise 'single' exactly when it
\* has a 'Title' or 'title' key, otherwise 'unknown'; a 'reminders' value
\* that is no list never yields 'bulk'.
C3_DetectClasses ==
    call.op = "detect_json_format" =>
        LET d == call.json_data
            hasList == "reminders" \in DOMAIN d /\ d["reminders"].is_list
            hasTitle == "Title" \in DOMAIN d \/ "title" \in DOMAIN d
        IN  /\ call.result \in {"bulk", "single", "unknown"}
            /\ call.result = "bulk" <=> hasList
            /\ call.result = "single" <=> (~hasList /\ hasTitle)
            /\ call.result = "unknown" <=> (~hasList /\ ~hasTitle)

C3_Witness ==
    /\ call.op = "detect_json_format"
    /\ {"reminders", "Title"} \subseteq DOMAIN call.json_data
    /\ ~call.json_data["reminders"].is_list
    /\ call.result = "single"

(***************************************************************************)
(* Tag extraction (C8).                                                    *)
(***************************************************************************)
\* the indices of t where a '#word' token starts
TokenStarts(t) == {i \in 1..Len(t) : i < Len(t) /\ t[i] = "#" /\ t[i + 1] \in WordChars}

\* index k of t lies inside a token: on its '#' or in the word after it
InToken(t, k) ==
    \E i \in TokenStarts(t) : i <= k /\ \A m \in (i + 1)..k : t[m] \in WordChars

\* index k of t is whitespace directly before a token
BeforeToken(t, k) ==
    \E i \in TokenStarts(t) : k < i /\ \A m \in k..(i - 1) : t[m] \in SpaceChars

\* the word of the token starting at index i of t
WordOf(t, i) ==
    LET e == CHOOSE m \in (i + 1)..Len(t) :
                 /\ \A n \in (i + 1)..m : t[n] \in WordChars
                 /\ (m = Len(t) \/ t[m + 1] \notin WordChars)
    IN  SubSeq(t, i + 1, e)

\* the elements of a finite set of integers in increasing order
RECURSIVE Ascending(_)
Ascending(S) ==
    IF S = {} THEN <<>>
    ELSE LET m == CHOOSE x \in S : \A y \in S : x <= y
         IN  <<m>> \o Ascending(S \ {m})

\* the characters of t at the indices of S, in their order in t
TextAt(t, S) == LET idx == Ascending(S) IN [n \in 1..Len(idx) |-> t[idx[n]]]

\* C8: the tags are the words of the '#word' tokens of the title from left to
\* right; the clean title holds no '#word' token, has no leading or trailing
\* whitespace, and is the title's text outside the tokens (and outside the
\* whitespace directly before a token), in its original order, trimmed.
C8_ExtractTags ==
    call.op = "extract_tags_from_title" =>
        LET t == call.title
            clean == call.result.clean_title
            starts == Ascending(TokenStarts(t))
            rest == TextAt(t, {k \in 1..Len(t) : ~InToken(t, k) /\ ~BeforeToken(t, k)})
        IN  /\ call.result.tags = [n \in 1..Len(starts) |-> WordOf(t, starts[n])]
            /\ TokenStarts(clean) = {}
            /\ clean # <<>> => (clean[1] \notin SpaceChars /\ clean[Len(clean)] \notin SpaceChars)
            /\ \E a \in 1..(Len(rest) + 1), b \in 0..Len(rest) :
                 /\ clean = SubSeq(rest, a, b)
                 /\ \A k \in 1..(a - 1) : rest[k] \in SpaceChars
                 /\ \A k \in (b + 1)..Len(rest) : rest[k] \in SpaceChars

C8_Witness ==
    /\ call.op = "extract_tags_from_title"
    /\ call.title = <<"a", " ", "#", "B">>
    /\ call.result.tags = << <<"B">> >>
    /\ call.result.clean_title = <<"a">>

(***************************************************************************)
(* Tag merging (C9).                                                       *)
(***************************************************************************)
\* C9: the result is hashtags followed by native tags without the elements
\* that equal an earlier element ignoring case: no two result elements are
\* equal ignoring case, a kept element has the casing of its first
\* occurrence, the order is kept, and merging the result again (with itself
\* or with an empty list) returns the same list.
C9_CombineTags ==
    call.op = "combine_tags" =>
        LET all == call.hashtags \o call.native_tags
            first == {i \in 1..Len(all) :
                        \A j \in 1..(i - 1) : Lower(all[j]) # Lower(all[i])}
            r == call.result
        IN  /\ r = TextAt(all, first)
            /\ \A i, j \in 1..Len(r) : Lower(r[i]) = Lower(r[j]) => i = j
            /\ call.remerge # "" => r = call.first

C9_Witness ==
    /\ call.op = "combine_tags" /\ call.remerge = "self"
    /\ call.first = << <<"A">>, <<"b">> >>
    /\ call.result = << <<"A">>, <<"b">> >>

C9_WitnessCasing ==
    /\ call.op = "combine_tags" /\ call.remerge = ""
    /\ call.hashtags = << <<"A">> >> /\ call.native_tags = << <<"a">>, <<"b">> >>
    /\ call.result = << <<"A">>, <<"b">> >>

(***************************************************************************)
(* Date formatting (C10).                                                  *)
(***************************************************************************)
\* C10: format_date never raises, whether or not the module-level options
\* were set before the call; an ISO-8601 timestamp gives the zero-padded
\* MM/DD/YYYY of the date written in it, and empty, None or unparseable
\* input gives the empty string.
C10_FormatDateTotal ==
    call.op = "format_date" =>
        LET d == call.date_string
            iso == Truthy(d) /\ fromisoformat(ReplaceZ(d)).ok
            dt == fromisoformat(ReplaceZ(d))
        IN  /\ call.result.exc = ""
            /\ iso => call.result.value =
                        ZeroPad(dt.month, 2) \o <<"/">> \o ZeroPad(dt.day, 2)
                            \o <<"/">> \o ZeroPad(dt.year, 4)
            \* a calendar date YYYY-MM-DD is written digit for digit
            /\ (iso /\ d[5] = "-" /\ d[6] # "W") => call.result.value =
                        <<d[6], d[7], "/", d[9], d[10], "/", d[1], d[2], d[3], d[4]>>
            /\ ~iso => call.result.value = <<>>

(***************************************************************************)
(* Bulk conversion (C4, C6).                                               *)
(***************************************************************************)
\* the number of elements of a sequence that satisfy a completion test
CompletedCount(records) == Cardinality({i \in 1..Len(records) : IsCompleted(records[i])})

\* C4: process_bulk_json returns, for every bulk collection, exactly one row
\* per record that is not completed (per record, with include_completed), in
\* the input order of those records, and skips and counts exactly the
\* completed ones.
C4_BulkFilter ==
    call.op = "process_bulk_json" =>
        LET rs == call.json_data["reminders"].items
            want == Ascending({i \in 1..Len(rs) :
                                 call.include_completed \/ ~IsCompleted(rs[i])})
            r == call.result
        IN  /\ r.exc = ""
            /\ r.kept = want
            /\ Len(r.value) = Len(want)
            /\ \A n \in 1..Len(want) :
                 r.value[n] = convert_json_to_asana_row(rs[want[n]],
                                  call.default_assignee, args).value
            /\ r.skipped_count = IF call.include_completed THEN 0 ELSE CompletedCount(rs)

\* the schema-normalized (title, notes, section/list, due date) of a record
DedupKey(r) ==
    IF "Title" \in DOMAIN r
    THEN <<Get(r, "Title", <<>>), Get(r, "Notes", <<>>), Get(r, "List", <<>>),
           Get(r, "Due Date", <<>>)>>
    ELSE <<Get(r, "title", <<>>), Get(r, "notes", <<>>), Get(r, "list", <<>>),
           Get(r, "due_date", <<>>)>>

\* C6: records with equal schema-normalized (title, notes, list, due date)
\* are deduplicated before row building, so the rows of a bulk conversion
\* come from records with pairwise different tuples.
C6_BulkDeduplicated ==
    (call.op = "process_bulk_json" /\ call.result.exc = "") =>
        LET rs == call.json_data["reminders"].items
            kept == call.result.kept
        IN  \A i, j \in 1..Len(kept) :
              DedupKey(rs[kept[i]]) = DedupKey(rs[kept[j]]) => i = j

(***************************************************************************)
(* Completion filtering in every mode (C5).                                *)
(***************************************************************************)
\* the documents of the readable JSON files of a directory
ReadableDocs(json_files) ==
    LET idx == Ascending({i \in 1..Len(json_files) : json_files[i].kind = "json"})
    IN  [n \in 1..Len(idx) |-> json_files[idx[n]].doc]

\* C5: with include_completed false, no row handed to the CSV writer in any
\* mode comes from a completed record ('Is Completed' true in the old
\* schema, done = "Ja" in the new one), and in directory mode every
\* completed file is counted as skipped.
C5_NoCompletedRows ==
    (call.op \in {"process_single_file", "process_directory", "main"}
        /\ ~call.include_completed) =>
        /\ \A n \in 1..Len(call.result.sources) : ~IsCompleted(call.result.sources[n])
        /\ (call.op = "process_directory" \/ (call.op = "main" /\ call.mode = "directory"))
             => call.result.skipped_count = CompletedCount(ReadableDocs(call.json_files))

(***************************************************************************)
(* Row names (C7).                                                         *)
(***************************************************************************)
\* the title of a record under its own schema
TitleOf(r) == IF "Title" \in DOMAIN r THEN Get(r, "Title", <<>>) ELSE Get(r, "title", <<>>)

\* the name the claim gives the row of record r
NameIsCleanOrTitle(row, r) ==
    LET clean == extract_tags_from_title(TitleOf(r)).clean_title
    IN  /\ row["Name"] = IF clean # <<>> THEN clean ELSE TitleOf(r)
        /\ TitleOf(r) # <<>> => row["Name"] # <<>>

\* C7: in both row builders the Name of a row is the clean title when that
\* is not empty and the original title otherwise, so a record with a
\* non-empty title never gets a row with an empty Name.
C7_NameNeverEmpty ==
    /\ (call.op = "convert_json_to_asana_row" /\ call.result.exc = "")
         => NameIsCleanOrTitle(call.result.value, call.json_data)
    /\ (call.op = "convert_to_asana_format" /\ call.result.exc = "")
         => /\ Len(call.result.value) = Len(call.reminders)
            /\ \A n \in 1..Len(call.reminders) :
                 NameIsCleanOrTitle(call.result.value[n], call.reminders[n])

C7_Witness ==
    /\ call.op = "convert_to_asana_format" /\ call.result.exc = ""
    /\ call.reminders = <<NewTagOnly>>
    /\ call.result.value[1]["Name"] = <<"#", "a">>

C7_WitnessLegacyColumns ==
    /\ call.op = "convert_json_to_asana_row" /\ call.result.exc = ""
    /\ call.json_data = NewTagOnly
    /\ call.result.value["Name"] = <<"#", "a">>
    /\ call.result.value["Tags"] = <<"a", ",", " ", "b">>

(***************************************************************************)
(* Section names (C11).                                                    *)
(***************************************************************************)
\* s without the whitespace at its end, and nothing else removed
WithoutTrailingSpace(s) ==
    LET n == CHOOSE k \in 0..Len(s) :
                 /\ \A i \in (k + 1)..Len(s) : IsSpace(s[i])
                 /\ k > 0 => ~IsSpace(s[k])
    IN  SubSeq(s, 1, n)

\* C11: for a list name ending in ':', format_section removes that one colon
\* and the whitespace directly before it and keeps everything else, leading
\* whitespace included; a name not ending in ':' is returned unchanged;
\* empty or None gives the empty string.
C11_FormatSection ==
    call.op = "format_section" =>
        LET l == call.list_name
        IN  call.result =
              IF l = NoneVal \/ l = <<>> THEN <<>>
              ELSE IF l[Len(l)] = ":"
                   THEN WithoutTrailingSpace(SubSeq(l, 1, Len(l) - 1))
                   ELSE l

(***************************************************************************)
(* Assignee (C12).                                                         *)
(***************************************************************************)
\* the part of an address before its first '@' (the whole of it without one)
LocalPartOf(email) ==
    LET ats == {i \in 1..Len(email) : email[i] = "@"}
    IN  IF ats = {} THEN email
        ELSE SubSeq(email, 1, (CHOOSE i \in ats : \A j \in ats : i <= j) - 1)

\* The display name of a local part, position by position: a '.' becomes the
\* single space that joins two segments, the first character of a segment
\* is upper-cased and every other character lower-cased.
DisplayNameOf(local_part) ==
    [i \in 1..Len(local_part) |->
        IF local_part[i] = "." THEN " "
        ELSE IF i = 1 \/ local_part[i - 1] = "." THEN UpperChar(local_part[i])
        ELSE LowerChar(local_part[i])]

\* the email and the name the claim gives for a default assignee
AssigneeConfigured(default_assignee) ==
    default_assignee # NoneVal /\ default_assignee # <<>>

ExpectedEmail(default_assignee) ==
    IF AssigneeConfigured(default_assignee) THEN default_assignee ELSE <<>>

ExpectedAssignee(default_assignee) ==
    IF AssigneeConfigured(default_assignee)
    THEN DisplayNameOf(LocalPartOf(default_assignee)) ELSE <<>>

\* C12: with a default assignee configured every row carries that email
\* unchanged, and the display name is the local part before '@' split on
\* '.', each segment title-cased, joined by single spaces; without one the
\* email and the name are empty.
C12_Assignee ==
    /\ (call.op = "convert_json_to_asana_row" /\ call.result.exc = "")
         => /\ call.result.value["Assignee Email"] = ExpectedEmail(call.default_assignee)
            /\ call.result.value["Assignee"] = ExpectedAssignee(call.default_assignee)
    /\ (call.op = "convert_to_asana_format" /\ call.result.exc = "")
         => \A n \in 1..Len(call.result.value) :
              call.result.value[n]["Assignee Email"] = ExpectedEmail(call.default_assignee)

C12_Witness ==
    /\ call.op = "convert_json_to_asana_row" /\ call.result.exc = ""
    /\ call.default_assignee = <<"a", "B", ".", "B", "a", "@", "t", ".", "a">>
    /\ call.result.value["Assignee"] = <<"A", "b", " ", "B", "a">>
    /\ call.result.value["Assignee Email"] = call.default_assignee

C12_WitnessNoAssignee ==
    /\ call.op = "convert_to_asana_format" /\ call.result.exc = ""
    /\ call.default_assignee = NoneVal
    /\ Len(call.result.value) = 2
    /\ call.result.value[2]["Assignee Email"] = <<>>

(***************************************************************************)
(* Rows and headers (C13).                                                 *)
(***************************************************************************)
\* the calls that run the pipeline over a file or a directory
IsRun == call.op \in {"process_single_file", "process_directory", "main"}

\* the files a run wrote: no output file exists before the call
WrittenPaths == {p \in OutputPaths : fs[p].exists}

\* C13: every row handed to write_csv_file has exactly the keys of the
\* header written for that call, no key missing and none extra: the rows of
\* convert_json_to_asana_row under the legacy header, the rows of
\* convert_to_asana_format under get_asana_fieldnames(language) in 'en' and
\* in 'de', so the writer never refuses a row.
C13_RowKeysAreHeader ==
    (IsRun /\ ~call.dry_run) =>
        /\ \A p \in WrittenPaths : \A n \in 1..Len(call.result.rows) :
             DOMAIN call.result.rows[n] = Range(fs[p].fieldnames)
        /\ \A p \in WrittenPaths :
             /\ Len(fs[p].fieldnames) = Cardinality(Range(fs[p].fieldnames))
             /\ fs[p].rows # <<>>
        /\ call.result.rows # <<>> => WrittenPaths # {}

C13_Witness ==
    /\ call.op = "main" /\ call.mode = "file" /\ ~call.dry_run
    /\ args.asana_format /\ args.asana_language = "de"
    /\ call.file = JsonFile("reminders" :> JsonList(<<NewRich, OldOpen>>))
    /\ WrittenPaths = {"out.csv"}
    /\ fs["out.csv"].fieldnames = get_asana_fieldnames("de")
    /\ Len(call.result.rows) = 2
    /\ Len(fs["out.csv"].rows) = 2

C13_WitnessLegacy ==
    /\ call.op = "process_directory" /\ ~call.dry_run /\ call.separate
    /\ call.json_files = <<JsonFile(NewOpen), JsonFile(OldOpen)>>
    /\ WrittenPaths = {"a_asana.csv", "b_asana.csv"}
    /\ fs["a_asana.csv"].fieldnames = LegacyFieldnames

(***************************************************************************)
(* Subtasks (C14, C15).                                                    *)
(***************************************************************************)
\* the subtasks of a record: only the current schema has them
SubtasksOf(r) == IF "Title" \in DOMAIN r THEN <<>> ELSE Get(r, "subtasks", <<>>)

\* the index of the row of the i-th reminder when each reminder is followed
\* by one row per subtask
RECURSIVE ParentRowIndex(_, _)
ParentRowIndex(reminders, i) ==
    IF i = 1 THEN 1
    ELSE ParentRowIndex(reminders, i - 1) + 1 + Len(SubtasksOf(reminders[i - 1]))

\* the name of the row of a record: its clean title, or its title
ParentReference(r) ==
    LET clean == extract_tags_from_title(TitleOf(r)).clean_title
    IN  IF clean # <<>> THEN clean ELSE TitleOf(r)

\* C14: in the Asana format, the format with subtask support, the rows have
\* a 'Parent task' column, every subtask of a record has its own row that
\* names the parent by its clean title, and the rows of the subtasks of a
\* record directly follow the row of the record, before the next record's.
C14_SubtasksFlattened ==
    (call.op = "convert_to_asana_format" /\ call.result.exc = "") =>
        LET rs == call.reminders
            rows == call.result.value
        IN  /\ Len(rows) = ParentRowIndex(rs, Len(rs) + 1) - 1
            /\ \A n \in 1..Len(rows) : "Parent task" \in DOMAIN rows[n]
            /\ \A i \in 1..Len(rs) :
                 LET p == ParentRowIndex(rs, i)
                 IN  /\ rows[p]["Parent task"] = <<>>
                     /\ \A k \in 1..Len(SubtasksOf(rs[i])) :
                          rows[p + k]["Parent task"] = ParentReference(rs[i])

\* the lines of a notes field
LinesOf(text) == IF text = <<>> THEN <<>> ELSE Split(text, "\n")

\* t occurs in line
Mentions(line, t) ==
    \E i \in 0..(Len(line) - Len(t)) : SubSeq(line, i + 1, i + Len(t)) = t

\* the notes field ends with one line per subtask of r, in subtask order,
\* each naming its subtask
EndsWithSubtaskLines(field, r) ==
    LET subtasks == SubtasksOf(r)
        lines == LinesOf(field)
        k == Len(subtasks)
    IN  /\ Len(lines) >= k
        /\ \A i \in 1..k :
             Mentions(lines[Len(lines) - k + i], Get(subtasks[i], "title", <<>>))

\* C15: a row builder that gives subtasks no rows of their own appends one
\* line per subtask of a current-schema record to the parent's notes field,
\* in subtask order: convert_json_to_asana_row to Description and
\* convert_to_asana_format to Notes.
C15_SubtaskLines ==
    /\ (call.op = "convert_json_to_asana_row" /\ call.result.exc = "")
         => EndsWithSubtaskLines(call.result.value["Description"], call.json_data)
    /\ (call.op = "convert_to_asana_format" /\ call.result.exc = "")
         => \A n \in 1..Len(call.result.value) :
              EndsWithSubtaskLines(call.result.value[n]["Notes"], call.reminders[n])

(***************************************************************************)
(* Metadata lines (C16).                                                   *)
(***************************************************************************)
\* the notes of a record under its own schema
NotesOf(r) == IF "Title" \in DOMAIN r THEN Get(r, "Notes", <<>>) ELSE Get(r, "notes", <<>>)

\* the kinds of metadata set on a current-schema record, in the fixed order
MetadataSet(r) ==
    IF "Title" \in DOMAIN r THEN <<>>
    ELSE (IF Get(r, "flagged", "") = "Ja" THEN <<"flagged">> ELSE <<>>)
      \o (IF Get(r, "has_reminder", "") = "Ja" THEN <<"has_reminder">> ELSE <<>>)
      \o (IF Get(r, "reminder_location", <<>>) \notin {<<>>, NoneVal}
          THEN <<"location">> ELSE <<>>)
      \o (IF Get(r, "url", <<>>) \notin {<<>>, NoneVal} THEN <<"url">> ELSE <<>>)
      \o (IF Get(r, "subtasks", <<>>) # <<>> THEN <<"subtask_count">> ELSE <<>>)

\* the kind of metadata a line of a notes field shows by its marker glyph
KindOfLine(line) ==
    IF line = <<>> THEN "text"
    ELSE CASE line[1] = "<star> Flagged" -> "flagged"
           [] line[1] = "<bell> Has Reminder" -> "has_reminder"
           [] line[1] = "<pin> Location: " -> "location"
           [] line[1] = "<link> URL: " -> "url"
           [] line[1] = "<memo> " -> "subtask_count"
           [] OTHER -> "text"

\* the kinds of the metadata lines of a notes field, in the order of the lines
RECURSIVE KindsIn(_, _)
KindsIn(lines, i) ==
    IF i > Len(lines) THEN <<>>
    ELSE (IF KindOfLine(lines[i]) = "text" THEN <<>> ELSE <<KindOfLine(lines[i])>>)
         \o KindsIn(lines, i + 1)

\* the field starts with the notes of r and shows exactly the metadata set on r
HasMetadataLines(field, r) ==
    /\ Len(field) >= Len(NotesOf(r))
    /\ SubSeq(field, 1, Len(NotesOf(r))) = NotesOf(r)
    /\ KindsIn(LinesOf(field), 1) = MetadataSet(r)
    /\ "Title" \in DOMAIN r => field = NotesOf(r)

\* C16: for a current-schema record both row builders append the metadata
\* lines to the notes field after the original notes, in the order flagged,
\* has-reminder, location, url, subtask-count, each present exactly when its
\* source field is set; a legacy-schema record gets no such line.
C16_MetadataLines ==
    /\ (call.op = "convert_json_to_asana_row" /\ call.result.exc = "")
         => HasMetadataLines(call.result.value["Description"], call.json_data)
    /\ (call.op = "convert_to_asana_format" /\ call.result.exc = "")
         => \A n \in 1..Len(call.result.value) :
              HasMetadataLines(call.result.value[n]["Notes"], call.reminders[n])

(***************************************************************************)
(* Dry run (C17).                                                          *)
(***************************************************************************)
\* C17: a call with dry_run true leaves every file as it was, in
\* single-file mode, bulk mode and directory mode, separate or combined;
\* write_csv_file itself only prints the number of rows it was given.
C17_DryRunWritesNothing ==
    [][(call'.op \in {"write_csv_file", "process_single_file", "process_directory", "main"}
          /\ call'.dry_run)
       => /\ fs' = fs
          /\ call'.op = "write_csv_file"
               => /\ call'.result.exc = ""
                  /\ call'.result.printed = <<Len(call'.rows)>>]_vars

C17_Witness ==
    /\ call.op = "main" /\ call.mode = "directory" /\ call.dry_run /\ call.separate
    /\ call.json_files = <<JsonFile(OldOpen), JsonFile(NewOpen)>>
    /\ call.result.success_count = 2
    /\ Len(call.result.rows) = 2
    /\ \A p \in OutputPaths : ~fs[p].exists

C17_WitnessBulk ==
    /\ call.op = "process_single_file" /\ call.dry_run
    /\ call.file = JsonFile("reminders" :> JsonList(<<NewRich, OldOpen>>))
    /\ call.result.success
    /\ Len(call.result.rows) = 2
    /\ \A p \in OutputPaths : ~fs[p].exists

(***************************************************************************)
(* Writing and reading back (C18).                                         *)
(***************************************************************************)
\* the position of a column in a header, 0 when the header lacks it
ColumnOf(fieldnames, k) ==
    IF k \in Range(fieldnames) THEN CHOOSE i \in 1..Len(fieldnames) : fieldnames[i] = k
    ELSE 0

\* csv.DictReader over a written file: the value of column k in data line n
ReadBack(file, n, k) == file.rows[n][ColumnOf(file.fieldnames, k)]

\* C18: a real-run write_csv_file call with its default options, given rows
\* keyed by the current column set (Name, Notes, Section/Column, Assignee
\* Email, Due Date, Tags, Parent task, Priority), writes the header and one
\* line per row in order, and the file read back has as many rows with the
\* same Name and Priority.
C18_WriteReadBack ==
    (call.op = "write_csv_file" /\ ~call.dry_run /\ ~call.asana_format
        /\ call.language = "en"
        /\ \A n \in 1..Len(call.rows) : DOMAIN call.rows[n] = CurrentColumns)
    => /\ call.result.exc = ""
       /\ fs[call.filepath].exists
       /\ Len(fs[call.filepath].rows) = Len(call.rows)
       /\ \A k \in {"Name", "Priority"} : ColumnOf(fs[call.filepath].fieldnames, k) > 0
       /\ \A n \in 1..Len(call.rows) : \A k \in {"Name", "Priority"} :
            ReadBack(fs[call.filepath], n, k) = call.rows[n][k]


(***************************************************************************)
(* C19: zero rows are never written                                        *)
(***************************************************************************)
\* the run was over one file (process_single_file, or main on a file)
IsFileRun == call.op = "process_single_file" \/ (call.op = "main" /\ call.mode = "file")

\* the run was over a directory
IsDirectoryRun == call.op = "process_directory" \/ (call.op = "main" /\ call.mode = "directory")

\* every reminder of the list is completed
AllCompleted(reminders) == \A n \in 1..Len(reminders) : IsCompleted(reminders[n])

\* the input of a file run leaves no row after filtering: a completed single
\* record or a bulk document with no reminder left, completed ones excluded
FileHasNoRow ==
    /\ IsFileRun
    /\ call.file.kind = "json"
    /\ \/ /\ detect_json_format(call.file.doc) = "single"
          /\ ~call.include_completed /\ IsCompleted(call.file.doc)
       \/ /\ detect_json_format(call.file.doc) = "bulk"
          /\ \/ call.file.doc["reminders"].items = <<>>
             \/ ~call.include_completed /\ AllCompleted(call.file.doc["reminders"].items)

\* every file of the directory failed or was skipped
DirectoryHasNoRow ==
    /\ IsDirectoryRun
    /\ call.result.success_count = 0

\* no output file exists
NothingWritten == \A p \in OutputPaths : ~fs[p].exists /\ fs[p].rows = <<>>

\* C19: when no row survives filtering (a completed single record, an empty
\* or all-completed bulk document, a directory whose files all fail or are
\* skipped) write_csv_file is not called and no output file is created, and
\* no run leaves a file holding a header and no data row.
C19_ZeroRowsNeverWritten ==
    IsRun =>
        /\ (FileHasNoRow \/ DirectoryHasNoRow \/ call.result.rows = <<>>) =>
               (call.result.writes = 0 /\ NothingWritten)
        /\ \A p \in OutputPaths : fs[p].exists => fs[p].rows # <<>>

\* an all-completed bulk document, not a dry run: success and no file
C19_Witness ==
    /\ call.op = "process_single_file" /\ FileHasNoRow
    /\ detect_json_format(call.file.doc) = "bulk"
    /\ Len(call.file.doc["reminders"].items) = 2
    /\ ~call.dry_run /\ call.result.success /\ NothingWritten

\* a combined directory run whose only files are skipped or fail
C19_WitnessDirectory ==
    /\ call.op = "process_directory" /\ DirectoryHasNoRow
    /\ ~call.separate /\ ~call.dry_run
    /\ call.result.skipped_count = 1 /\ call.result.error_count = 1
    /\ call.result.writes = 0 /\ NothingWritten


(***************************************************************************)
(* C20: skipping a completed task is not a failure                         *)
(***************************************************************************)
\* a file run without include_completed whose tasks are all completed
FileAllSkipped ==
    /\ FileHasNoRow /\ ~call.include_completed
    /\ detect_json_format(call.file.doc) = "bulk" =>
           call.file.doc["reminders"].items # <<>>

\* a directory run without include_completed in which every file was
\* skipped as completed and none failed
DirectoryAllSkipped ==
    /\ IsDirectoryRun /\ ~call.include_completed
    /\ call.json_files # <<>>
    /\ call.result.exc = "" /\ call.result.error_count = 0
    /\ call.result.skipped_count = Len(call.json_files)

\* C20: a run with include_completed false in which every task is skipped as
\* completed and no file fails ends successfully: process_single_file
\* returns True and main does not exit non-zero, for a single record, a bulk
\* document and a directory.
C20_SkippedIsNoFailure ==
    /\ FileAllSkipped => call.result.success
    /\ (call.op = "main" /\ (FileAllSkipped \/ DirectoryAllSkipped)) => call.exit_status = 0

\* the file modes alone end successfully
C20_FileModes ==
    /\ FileAllSkipped => call.result.success
    /\ (call.op = "main" /\ FileAllSkipped) => call.exit_status = 0

\* main on a completed single record, and on an all-completed bulk document
C20_WitnessSingle ==
    /\ call.op = "main" /\ FileAllSkipped
    /\ detect_json_format(call.file.doc) = "single" /\ call.exit_status = 0

C20_WitnessBulk ==
    /\ call.op = "main" /\ FileAllSkipped
    /\ detect_json_format(call.file.doc) = "bulk" /\ call.exit_status = 0

\* main on a directory whose files are all skipped
C20_WitnessDirectory == call.op = "main" /\ DirectoryAllSkipped


(***************************************************************************)
(* C21: every file of a directory is counted once; a failure stays local   *)
(***************************************************************************)
\* the run of process_directory of the call, on the files json_files alone
DirectoryRunOn(json_files) ==
    process_directory(json_files, call.output_path, call.separate, call.default_assignee,
                      call.include_completed, call.dry_run, call.verbose, args,
                      [p \in OutputPaths |-> NoFile])

\* the rows each file of the directory gives when it is the only file, in
\* the order of the files
RECURSIVE RowsFileByFile(_, _)
RowsFileByFile(json_files, i) ==
    IF i > Len(json_files) THEN <<>>
    ELSE DirectoryRunOn(<<json_files[i]>>).rows \o RowsFileByFile(json_files, i + 1)

\* the i-th file fails when it is the only file
FailsAlone(i) == DirectoryRunOn(<<call.json_files[i]>>).error_count = 1

\* C21: the three counts returned by process_directory sum to the number of
\* JSON files, and the rows of the run are the rows every file gives on its
\* own, in the order of the files: a file that fails neither stops the
\* files after it nor changes their rows.
C21_EveryFileCountedOnce ==
    (call.op = "process_directory" /\ call.result.exc = "") =>
        /\ call.result.success_count + call.result.error_count
               + call.result.skipped_count = Len(call.json_files)
        /\ call.result.rows = RowsFileByFile(call.json_files, 1)

\* a file that fails, followed by a file that is converted
C21_Witness ==
    /\ call.op = "process_directory" /\ call.result.exc = ""
    /\ Len(call.json_files) = 2
    /\ FailsAlone(1) /\ ~FailsAlone(2)
    /\ call.result.error_count = 1 /\ call.result.success_count = 1
    /\ Len(call.result.rows) = 1

\* a conversion error (NameError in format_date) before a skipped file
C21_WitnessConversion ==
    /\ call.op = "process_directory" /\ ~args.defined
    /\ Len(call.json_files) = 2
    /\ call.json_files[1] = JsonFile(NewBadDate)
    /\ call.result.error_count = 1 /\ call.result.skipped_count = 1


(***************************************************************************)
(* C22: a document of unknown shape is a failure of its file               *)
(***************************************************************************)
\* the file holds JSON that is neither a bulk collection nor a record
IsUnknownFile(file) == file.kind = "json" /\ detect_json_format(file.doc) = "unknown"

\* the number of files of unknown shape among the first i files
RECURSIVE UnknownFiles(_, _)
UnknownFiles(json_files, i) ==
    IF i = 0 THEN 0
    ELSE UnknownFiles(json_files, i - 1) + (IF IsUnknownFile(json_files[i]) THEN 1 ELSE 0)

\* file mode: process_single_file returns False and main exits non-zero
C22_UnknownFileMode ==
    (IsFileRun /\ IsUnknownFile(call.file)) =>
        /\ ~call.result.success /\ call.result.rows = <<>>
        /\ call.op = "main" => call.exit_status # 0

\* C22: a document that parses as JSON but is neither bulk nor single shape
\* is a failure of its file: process_single_file returns False and main
\* exits non-zero; in directory mode the file is counted as failed and no
\* row of any output is built from it.
C22_UnknownDocumentFails ==
    /\ C22_UnknownFileMode
    /\ (IsDirectoryRun /\ call.result.exc = "") =>
           /\ call.result.error_count >= UnknownFiles(call.json_files, Len(call.json_files))
           /\ \A n \in 1..Len(call.result.sources) :
                  detect_json_format(call.result.sources[n]) # "unknown"

\* main on a file of unknown shape
C22_WitnessFile ==
    /\ call.op = "main" /\ IsFileRun /\ IsUnknownFile(call.file)
    /\ call.exit_status = 1


(***************************************************************************)
(* C23: a directory run always reports its tally                           *)
(***************************************************************************)
\* the path was unwritable when the run started (a run never changes it)
Unwritable(p) == ~fs[p].writable

\* separate mode: an unwritable per-file output is counted as a failure and
\* the files after it are processed
C23_PerFileFailureCounted ==
    (IsDirectoryRun /\ call.separate) =>
        /\ call.result.exc = ""
        /\ call.result.success_count + call.result.error_count
               + call.result.skipped_count = Len(call.json_files)

\* C23: every directory-mode run of main reports the final tally of
\* succeeded, failed and skipped files, whose sum is the number of files: no
\* failure inside the run, an unwritable combined or per-file output
\* included, ends the run before the tally.
C23_TallyAlwaysReported ==
    (call.op = "main" /\ call.mode = "directory") =>
        /\ call.result.exc = ""
        /\ Len(call.tally) = 3
        /\ call.tally[1] + call.tally[2] + call.tally[3] = Len(call.json_files)

\* separate mode with the first output unwritable: one failure, and the
\* second file is written
C23_WitnessSeparate ==
    /\ call.op = "main" /\ call.mode = "directory" /\ call.separate /\ ~call.dry_run
    /\ Unwritable("a_asana.csv") /\ Len(call.json_files) = 2
    /\ call.tally = <<1, 1, 0>> /\ fs["b_asana.csv"].exists

\* combined mode with an unwritable output: the run ends without a tally
C23_WitnessCombined ==
    /\ call.op = "main" /\ call.mode = "directory" /\ ~call.separate /\ ~call.dry_run
    /\ Unwritable(OutputFile(call.output))
    /\ call.result.exc = "OSError" /\ call.tally = <<>> /\ call.exit_status = 1


(***************************************************************************)
(* C24: process_single_file never raises                                   *)
(***************************************************************************)
\* the output path of a file run
RunOutputPath ==
    IF call.op = "main" THEN OutputFile(call.output) ELSE call.output_path

\* the run tried to open an unwritable output path
WriteRefused ==
    /\ IsFileRun /\ ~call.dry_run
    /\ call.result.writes = 1 /\ Unwritable(RunOutputPath)

\* C24: process_single_file never raises to its caller: invalid JSON, an
\* unreadable input, an unwritable output path and an error while a record
\* is converted all end in a False return, and main exits non-zero exactly
\* when process_single_file returned False.
C24_NeverRaises ==
    IsFileRun =>
        /\ call.result.exc = ""
        /\ call.file.kind = "invalid" =>
               (~call.result.success /\ call.result.caught = "JSONDecodeError")
        /\ call.file.kind = "missing" =>
               (~call.result.success /\ call.result.caught = "FileNotFoundError")
        /\ WriteRefused => (~call.result.success /\ call.result.caught = "OSError")
        /\ call.result.caught # "" => ~call.result.success
        /\ call.op = "main" => (call.exit_status # 0 <=> ~call.result.success)

\* an unwritable output path: False, and main exits 1
C24_Witness ==
    /\ call.op = "main" /\ WriteRefused
    /\ call.file = JsonFile(OldOpen)
    /\ ~call.result.success /\ call.exit_status = 1

\* an error while a record of a bulk document is converted
C24_WitnessConversion ==
    /\ call.op = "process_single_file" /\ call.file.kind = "json"
    /\ detect_json_format(call.file.doc) = "bulk"
    /\ call.result.caught = "NameError" /\ ~call.result.success
    /\ call.result.writes = 0

\* an input that cannot be read, and one that is no JSON
C24_WitnessUnreadable ==
    /\ call.op = "main" /\ call.file.kind = "missing" /\ call.exit_status = 1

C24_WitnessInvalid ==
    /\ call.op = "main" /\ call.file.kind = "invalid" /\ call.exit_status = 1


(***************************************************************************)
(* C25: absent keys default to empty values                                *)
(***************************************************************************)
\* the key a record's own schema uses for a field: legacy when the record
\* has the key 'Title', current otherwise
OwnKey(record, legacy_key, new_key) ==
    IF "Title" \in DOMAIN record THEN legacy_key ELSE new_key

Absent(record, legacy_key, new_key) ==
    OwnKey(record, legacy_key, new_key) \notin DOMAIN record

\* the record has no native tags and no hashtag in its title
NoTagSource(record) ==
    /\ ("Title" \in DOMAIN record \/ "tags" \notin DOMAIN record)
    /\ \/ Absent(record, "Title", "title")
       \/ extract_tags_from_title(record[OwnKey(record, "Title", "title")]).tags = <<>>

\* the record has no notes and nothing a builder appends to the notes
NoNotesSource(record) ==
    /\ Absent(record, "Notes", "notes")
    /\ DOMAIN record \cap {"flagged", "has_reminder", "reminder_location", "url", "subtasks"} = {}

\* the fields of row that come from keys absent in record are empty
AbsentKeysGiveEmpty(record, row, notes_column, section_column) ==
    /\ Absent(record, "Title", "title") => row["Name"] = <<>>
    /\ Absent(record, "List", "list") => row[section_column] = <<>>
    /\ Absent(record, "Due Date", "due_date") => row["Due Date"] = <<>>
    /\ NoTagSource(record) => row["Tags"] = <<>>
    /\ NoNotesSource(record) => row[notes_column] = <<>>

\* the rows of both builders for the call made
BuildersDefault ==
    /\ call.op = "convert_json_to_asana_row" =>
           /\ call.result.exc = ""
           /\ AbsentKeysGiveEmpty(call.json_data, call.result.value,
                                  "Description", "Target Section")
    /\ call.op = "convert_to_asana_format" =>
           /\ call.result.exc = ""
           /\ Len(call.result.value) = Len(call.reminders)
           /\ \A i \in 1..Len(call.reminders) :
                  /\ AbsentKeysGiveEmpty(call.reminders[i], call.result.value[i],
                                         "Notes", "Section/Column")
                  /\ <<call.result.value[i]>> =
                         convert_to_asana_format(<<call.reminders[i]>>, call.default_assignee,
                                                 call.language, args).value

\* C25: for every record of either schema with any subset of its keys
\* absent, both row builders return a row without raising, with the empty
\* string for Name, notes, section, due date and tags when their keys are
\* absent, and each record of a collection is read under its own schema
\* (legacy when it has the key 'Title'), whatever the other records are.
C25_MissingKeys == BuildersDefault

\* the due date of the record, when present, is empty or an ISO timestamp
DateParses(record) ==
    \/ Absent(record, "Due Date", "due_date")
    \/ format_date(record[OwnKey(record, "Due Date", "due_date")], MockArgs(FALSE)).value # <<>>
    \/ record[OwnKey(record, "Due Date", "due_date")] = <<>>

\* the same for the calls in which no unparseable date meets an undefined args
C25_ButForFormatDate ==
    \/ /\ ~args.defined
       /\ \/ call.op = "convert_json_to_asana_row" /\ ~DateParses(call.json_data)
          \/ /\ call.op = "convert_to_asana_format"
             /\ \E i \in 1..Len(call.reminders) : ~DateParses(call.reminders[i])
    \/ BuildersDefault

\* the empty record, called as test_convert_task_missing_fields calls it
C25_WitnessEmpty ==
    /\ call.op = "convert_json_to_asana_row" /\ ~args.defined
    /\ call.json_data = EmptyRecord /\ call.result.exc = ""
    /\ call.result.value["Name"] = <<>> /\ call.result.value["Tags"] = <<>>

\* a legacy record without notes after a record of the new schema
C25_WitnessMixed ==
    /\ call.op = "convert_to_asana_format" /\ call.result.exc = ""
    /\ Len(call.reminders) = 2
    /\ call.reminders[1] = NewRich
    /\ "Title" \in DOMAIN call.reminders[2] /\ "Notes" \notin DOMAIN call.reminders[2]
    /\ call.result.value[2]["Notes"] = <<>> /\ call.result.value[2]["Name"] = <<"a">>


(***************************************************************************)
(* C26: a direct call of process_single_file on one legacy record          *)
(***************************************************************************)
\* process_single_file called while the module-level args was never set, on
\* a file holding one legacy record that is not filtered out, not a dry run
DirectLegacyCall ==
    /\ call.op = "process_single_file" /\ ~args.defined
    /\ call.file.kind = "json" /\ detect_json_format(call.file.doc) = "single"
    /\ "Title" \in DOMAIN call.file.doc
    /\ call.include_completed \/ ~IsCompleted(call.file.doc)
    /\ ~call.dry_run

\* C26: process_single_file called directly, without the module-level
\* options set, on one legacy record that is not filtered out returns True
\* and writes a CSV with exactly one data row whose Name is the record's title.
C26_DirectCallWritesRow ==
    DirectLegacyCall =>
        /\ call.result.success
        /\ fs[call.output_path].exists
        /\ Len(fs[call.output_path].rows) = 1
        /\ ReadBack(fs[call.output_path], 1, "Name") = call.file.doc["Title"]

\* the completed legacy record included on request, as the test calls it
C26_WitnessDirect ==
    /\ DirectLegacyCall /\ call.file = JsonFile(OldDone) /\ call.include_completed
    /\ ~call.result.success /\ call.result.caught = "NameError"
    /\ ~fs[call.output_path].exists

\* the same call once a test has assigned args: one row with the title
C26_WitnessMockArgs ==
    /\ call.op = "process_single_file" /\ args = MockArgs(FALSE)
    /\ call.file = JsonFile(OldDone) /\ call.include_completed /\ ~call.dry_run
    /\ call.result.success /\ Len(fs[call.output_path].rows) = 1
    /\ ReadBack(fs[call.output_path], 1, "Name") = <<"t">>


(***************************************************************************)
(* C27: the Asana rows of a bulk run                                       *)
(***************************************************************************)
\* a run over a bulk document in the Asana format that reached the write
BulkAsanaRun ==
    /\ IsFileRun /\ call.file.kind = "json"
    /\ detect_json_format(call.file.doc) = "bulk"
    /\ args.defined /\ args.has_asana_format /\ args.asana_format
    /\ call.result.writes = 1

\* the reminders with a subtask among the sources of the run
SourcesWithSubtasks ==
    {n \in 1..Len(call.result.sources) :
        Get(call.result.sources[n], "subtasks", <<>>) # <<>>}

\* the run agrees with bulk, the result of process_bulk_json on its document
AgreesWithBulk(bulk) ==
    /\ bulk.exc = ""
    /\ call.result.sources = RemindersAt(call.file.doc["reminders"].items, bulk.kept)
    /\ Len(call.result.rows) = Len(bulk.value)
    /\ \A n \in 1..Len(bulk.value) : call.result.rows[n]["Name"] = bulk.value[n]["Name"]
    /\ (~call.dry_run /\ call.result.success) =>
           Len(fs[RunOutputPath].rows) = Len(bulk.value)

\* C27: in a bulk run with the Asana format the reminders given to
\* convert_to_asana_format are the reminders process_bulk_json kept, in the
\* same order, and each gives exactly one row whatever its subtasks: as many
\* Asana rows are written as process_bulk_json returned.
C27_AsanaRowsMatchBulk ==
    BulkAsanaRun =>
        AgreesWithBulk(process_bulk_json(call.file.doc, call.default_assignee,
                                         call.include_completed, call.verbose, args))

\* a completed reminder dropped and a reminder with two subtasks kept
C27_Witness ==
    /\ BulkAsanaRun /\ ~call.include_completed /\ ~call.dry_run
    /\ Len(call.file.doc["reminders"].items) = 2
    /\ call.result.sources = <<NewRich>>
    /\ SourcesWithSubtasks = {1}
    /\ call.result.success /\ Len(fs[RunOutputPath].rows) = 1


(***************************************************************************)
(* C28: one write, after every conversion                                  *)
(***************************************************************************)
\* c is the record of a file run and a the global args during the run: the
\* conversion of a record of the document fails
ConversionFailsIn(c, a) ==
    /\ c.op \in {"process_single_file", "main"} /\ c.file.kind = "json"
    /\ detect_json_format(c.file.doc) = "bulk"
    /\ process_bulk_json(c.file.doc, c.default_assignee, c.include_completed, c.verbose,
                         a).exc # ""

ConversionFails == IsFileRun /\ ConversionFailsIn(call, args)

\* the number of records of the document of the run c that are not skipped
RecordsToConvert(c) ==
    IF detect_json_format(c.file.doc) = "bulk"
    THEN Len(FilteredReminders(c.file.doc["reminders"].items, 1, c.include_completed))
    ELSE 1

\* the output path of the file run c
OutputPathOf(c) == IF c.op = "main" THEN OutputFile(c.output) ELSE c.output_path

\* the step is a run over one file
FileRunStep ==
    \/ call'.op = "process_single_file"
    \/ call'.op = "main" /\ call'.mode = "file"

\* C28: in a run over one file the output file is opened at most once, and
\* only after every record of the document was converted: when a conversion
\* fails the run returns False and the output file is as it was before the
\* run, and a file that changed holds one line for every record.
C28_NoPartialOutput ==
    [][FileRunStep =>
          /\ call'.result.writes <= 1
          /\ ConversionFailsIn(call', args') =>
                 (~call'.result.success /\ call'.result.writes = 0 /\ fs' = fs)
          /\ fs' # fs =>
                 /\ call'.result.writes = 1 /\ call'.result.success
                 /\ \A p \in OutputPaths \ {OutputPathOf(call')} : fs'[p] = fs[p]
                 /\ Len(fs'[OutputPathOf(call')].rows) = RecordsToConvert(call')]_vars

\* the second record of a bulk document fails after the first was
\* converted, and the output file of an earlier run is as it was
C28_Witness ==
    /\ call.op = "process_single_file" /\ ConversionFails /\ ~call.dry_run
    /\ Len(call.file.doc["reminders"].items) = 2
    /\ call.file.doc["reminders"].items[2] = NewBadDate
    /\ call.file.doc["reminders"].items[1] = OldOpen
    /\ ~call.result.success /\ call.result.writes = 0
    /\ fs[call.output_path] = OldFile

\* a run that replaces the file of an earlier run by two rows
C28_WitnessWritten ==
    /\ call.op = "process_single_file" /\ ~call.dry_run /\ call.result.success
    /\ call.result.writes = 1
    /\ fs[call.output_path].exists /\ fs[call.output_path] # OldFile
    /\ Len(fs[call.output_path].rows) = 2
    /\ fs["asana_import.csv"] = OldFile


(***************************************************************************)
(* C29: verbose changes only what is printed                               *)
(***************************************************************************)
\* the options a with the verbose flag inverted
OtherVerbose(a) == [a EXCEPT !.verbose = ~a.verbose]

\* the result r of a run without the lines it printed
Unprinted(r) == [f \in DOMAIN r \ {"stdout"} |-> r[f]]

\* the call c made again from the files `files`, with the value verbose for
\* its parameter of that name and with a for the global args
RunWith(c, verbose, a, files) ==
    IF c.op = "process_bulk_json"
    THEN process_bulk_json(c.json_data, c.default_assignee, c.include_completed,
                           verbose, a)
    ELSE IF c.mode = "file"
    THEN process_single_file(c.file, OutputFile(c.output), c.default_assignee,
                             c.include_completed, c.dry_run, verbose, a, files)
    ELSE process_directory(c.json_files, c.output, c.separate, c.default_assignee,
                           c.include_completed, c.dry_run, verbose, a, files)

\* what main makes of the result r of the run c: the exit status, and for a
\* directory the three counts of the summary
MainExit(c, r) ==
    IF c.mode = "file" THEN (IF r.exc = "" /\ r.success THEN 0 ELSE 1)
    ELSE (IF r.exc # "" \/ r.success_count = 0 THEN 1 ELSE 0)

MainTally(r) ==
    IF r.exc # "" THEN <<>> ELSE <<r.success_count, r.error_count, r.skipped_count>>

\* the run c of main, which left the files as `files`, and the run with the
\* result `other` differ in nothing but the lines printed: the rows handed
\* to write_csv_file and the records they were built from, the number of
\* writes, the files, the success result or the three counts, the
\* exception caught or raised, and the exit status are the same
SameButPrinted(c, files, other) ==
    /\ Unprinted(c.result) = Unprinted(other)
    /\ files = other.files
    /\ c.exit_status = MainExit(c, other)
    /\ c.mode = "directory" => c.tally = MainTally(other)

\* C29: two runs that differ only in verbose give the same rows, the same
\* written files, the same tallies, the same success result and the same
\* exit status, and differ at most in the lines they print.  Every run of
\* main with the flag set, over a file or over a directory, is set against
\* the run from the same files without it; every call of process_bulk_json
\* with the parameter verbose set against the call without it, and every
\* call made while the global args.verbose is set against the call made
\* while it is not.
C29_VerboseOnlyPrints ==
    [][/\ (call'.op = "main" /\ args'.verbose) =>
              \E other \in {RunWith(call', FALSE, OtherVerbose(args'), fs)} :
                  SameButPrinted(call', fs', other)
       /\ (call'.op = "process_bulk_json" /\ call'.verbose) =>
              \E other \in {RunWith(call', FALSE, args', fs)} :
                  Unprinted(call'.result) = Unprinted(other)
       /\ (call'.op = "process_bulk_json" /\ args'.verbose) =>
              \E other \in {RunWith(call', call'.verbose, OtherVerbose(args'), fs)} :
                  Unprinted(call'.result) = Unprinted(other)]_vars

\* a verbose run of main over a bulk document whose one reminder has a date
\* that cannot be converted: the run prints the file, the format, the
\* warning of format_date, the converted reminder and the success line and
\* writes a row with an empty due date; the run without verbose prints
\* nothing
C29_Witness ==
    /\ call.op = "main" /\ call.mode = "file" /\ args.verbose /\ ~call.dry_run
    /\ ~args.asana_format
    /\ detect_json_format(call.file.doc) = "bulk"
    /\ call.file.doc["reminders"].items = <<NewBadDate>>
    /\ call.result.success /\ call.result.rows[1]["Due Date"] = <<>>
    /\ call.result.stdout = <<440, 451, 73, 424, 488>>
    /\ RunWith(call, FALSE, OtherVerbose(args), [p \in OutputPaths |-> NoFile]).stdout = <<>>

\* a verbose directory run with a converted and a skipped file, each
\* written to its own file: the line 582 is printed once
C29_WitnessDirectory ==
    /\ call.op = "main" /\ call.mode = "directory" /\ args.verbose
    /\ call.separate /\ ~call.dry_run
    /\ call.tally = <<1, 0, 1>>
    /\ Len(SelectSeq(call.result.stdout, LAMBDA l : l = 582)) = 1

\* a verbose call of process_bulk_json that skips one reminder and converts
\* the other
C29_WitnessBulk ==
    /\ call.op = "process_bulk_json" /\ call.verbose
    /\ call.result.exc = "" /\ call.result.skipped_count = 1
    /\ Len(call.result.value) = 1
    /\ 415 \in Range(call.result.stdout) /\ 424 \in Range(call.result.stdout)
    /\ call.result.stdout[Len(call.result.stdout)] = 427

====
